---- MODULE Spec2Model ----
(***************************************************************************)
(* Canonicalization of 2-adic genus symbols                                *)
(* (src/src/sage/quadratic_forms/genera/genus.py).                         *)
(*                                                                         *)
(* A symbol is a Python list of block records; a block record is a Python  *)
(* list [m, n, d, s, o] (a triple [m, n, d] at an odd prime).  Lists are   *)
(* objects: `heap` maps an address to the record stored there and a symbol *)
(* list is a sequence of addresses, so that copying, aliasing and in-place *)
(* mutation are visible.  Python index k of a record is TLA+ index k+1;    *)
(* block indices inside compartments and trains are Python's (0-based).    *)
(***************************************************************************)
EXTENDS Integers, Sequences, FiniteSets, TLC

VARIABLES
    heap,     \* address -> block record (the nested Python lists)
    sym,      \* the caller's symbol list: a sequence of addresses
    arg,      \* the list object handed to the last call
    before,   \* contents of `arg` when the last call started
    op,       \* the last call made
    raised,   \* whether the last call raised
    retIdx,   \* value returned by compartments / trains
    retSym,   \* list returned by canonical_2_adic_reduction (addresses)
    red,      \* intermediate values of the last canonical_2_adic_reduction
    objs,     \* the Genus_Symbol_p_adic_ring objects: _prime, _symbol, _canonical_symbol
    genus,    \* the GenusSymbol_global_ring objects: _signature, _local_symbols
    ret,      \* value returned by the last call of a predicate or method
    representative   \* the matrix of which the genus is taken

vars == <<heap, sym, arg, before, op, raised, retIdx, retSym, red, objs, genus, ret,
          representative>>

(***************************************************************************)
(* Bounds of the explored inputs.                                          *)
(***************************************************************************)
MaxLen == 2        \* blocks per symbol, all five fields varied
MaxBlocks == 4     \* blocks per symbol, scale and parity varied
MaxShapeLen == 3   \* blocks per symbol, quintuples and triples mixed

ScaleGaps == {1, 2, 3}
DetClasses == {1, 3, 5, 7}
Parities == {0, 1}
\* (s, o) of the input blocks: even and odd blocks, oddities that wrap mod 8
ParityOddities == {<<0, 0>>, <<0, 3>>, <<1, 1>>, <<1, 6>>}

(***************************************************************************)
(* Python list primitives.                                                 *)
(***************************************************************************)
\* rec[k]
Item(rec, k) == rec[k + 1]

\* rec[k] does not raise IndexError (k >= 0)
Has(rec, k) == k < Len(rec)

\* x in lst
InList(x, lst) == \E j \in 1 .. Len(lst) : lst[j] = x

\* lst[k] = x on a list of records: record k's field f becomes x
SetField(lst, k, f, x) == [lst EXCEPT ![k + 1] = [@ EXCEPT ![f + 1] = x]]

\* the records a list of addresses holds
Vals(h, lst) == [j \in 1 .. Len(lst) |-> h[lst[j]]]

\* in-place mutation of the records of `lst` to `vals`
WriteBack(h, lst, vals) ==
    [a \in 1 .. Len(h) |->
        IF \E j \in 1 .. Len(lst) : lst[j] = a
        THEN vals[CHOOSE j \in 1 .. Len(lst) : lst[j] = a]
        ELSE h[a]]

\* Python's None: no list.  An attribute that holds None or a list l holds
\* <<>> or <<l>>, so that an empty list is not None.
None == <<>>

\* Result of a call on values: whether it raised, and what it returned.
Raise == [raised |-> TRUE, value |-> <<>>]
Return(v) == [raised |-> FALSE, value |-> v]

(***************************************************************************)
(* canonical_2_adic_compartments (genus.py 253-269).                       *)
(***************************************************************************)
\* faulty variant: any odd block continues the compartment, whatever its scale
in_compartment_any_scale(blk, v) == Item(blk, 3) = 1

\* the test of line 262 on block blk: odd, and of the expected scale v
in_compartment(blk, v) == Item(blk, 3) = 1 /\ Item(blk, 0) = v

\* inner while loop (262-265): extend compartment c from index i, expecting scale v;
\* returns <<c, i>> as the loop leaves them
RECURSIVE compartment_run(_, _, _, _)
compartment_run(symbol, i, v, c) ==
    IF i < Len(symbol) /\ in_compartment(Item(symbol, i), v)
    THEN compartment_run(symbol, i + 1, v + 1, Append(c, i))
    ELSE <<c, i>>

\* outer while loop (257-268)
RECURSIVE compartments_loop(_, _, _)
compartments_loop(symbol, i, compartments) ==
    IF i < Len(symbol)
    THEN LET s == Item(symbol, i) IN
         IF Item(s, 3) = 1
         THEN LET run == compartment_run(symbol, i, Item(s, 0), <<>>) IN
              compartments_loop(symbol, run[2], Append(compartments, run[1]))
         ELSE compartments_loop(symbol, i + 1, compartments)
    ELSE compartments

\* faulty variant: the scan starts at index 1
canonical_2_adic_compartments_from1(symbol) ==
    IF \E j \in 1 .. Len(symbol) : ~Has(symbol[j], 3)
    THEN Raise
    ELSE Return(compartments_loop(symbol, 1, <<>>))

\* Both loops read symbol[i][3] of every index i they reach, and they reach every
\* index, so the call raises IndexError exactly when some record has no field 3.
canonical_2_adic_compartments(symbol) ==
    IF \E j \in 1 .. Len(symbol) : ~Has(symbol[j], 3)
    THEN Raise
    ELSE Return(compartments_loop(symbol, 0, <<>>))

(***************************************************************************)
(* canonical_2_adic_trains (genus.py 343-371).                             *)
(***************************************************************************)
\* the sentinel block of line 344: [symbol[-1][0]+1, 0, 1, 0, 0]
sentinel(symbol) == <<Item(symbol[Len(symbol)], 0) + 1, 0, 1, 0, 0>>

\* line 344 raises IndexError on an empty list or an empty last record
sentinel_raises(symbol) == Len(symbol) = 0 \/ ~Has(symbol[Len(symbol)], 0)

\* faulty variant: the last test is "prev even or cur even"
train_branch_or(prev, cur) ==
    IF Item(cur, 0) - Item(prev, 0) > 2 THEN "new"
    ELSE IF Item(cur, 0) - Item(prev, 0) = 2 /\ Item(cur, 3) * Item(prev, 3) = 0 THEN "new"
    ELSE IF Item(prev, 3) = 0 \/ Item(cur, 3) = 0 THEN "new"
    ELSE "extend"

\* the branch of lines 353-365 taken for (prev, cur): "raise", "new" or "extend",
\* with Python's left-to-right, short-circuit evaluation of the conditions
train_branch(prev, cur) ==
    IF ~Has(cur, 0) \/ ~Has(prev, 0) THEN "raise"
    ELSE IF Item(cur, 0) - Item(prev, 0) > 2 THEN "new"
    ELSE IF Item(cur, 0) - Item(prev, 0) = 2 /\ (~Has(cur, 3) \/ ~Has(prev, 3)) THEN "raise"
    ELSE IF Item(cur, 0) - Item(prev, 0) = 2 /\ Item(cur, 3) * Item(prev, 3) = 0 THEN "new"
    ELSE IF ~Has(prev, 3) THEN "raise"
    ELSE IF Item(prev, 3) # 0 THEN "extend"
    ELSE IF ~Has(cur, 3) THEN "raise"
    ELSE IF Item(cur, 3) = 0 THEN "new"
    ELSE "extend"

\* faulty variant: the loop runs over the sentinel too
trains_range_end_len(symbol) == Len(symbol)

\* the end of range(1, len(symbol)-1) (350), symbol holding the sentinel
trains_range_end(symbol) == Len(symbol) - 1

\* for i in range(1, len(symbol)-1) on the list with the sentinel appended (350-367)
RECURSIVE trains_loop(_, _, _, _)
trains_loop(symbol, i, trains, new_train) ==
    IF i < trains_range_end(symbol)
    THEN LET b == train_branch(Item(symbol, i - 1), Item(symbol, i)) IN
         IF b = "raise" THEN Raise
         ELSE IF b = "new" THEN trains_loop(symbol, i + 1, Append(trains, new_train), <<i>>)
         ELSE trains_loop(symbol, i + 1, trains, Append(new_train, i))
    ELSE Return(Append(trains, new_train))

\* the value computed by the call on a list holding the records `symbol`
trains_value(symbol) ==
    IF sentinel_raises(symbol)
    THEN Raise
    ELSE trains_loop(Append(symbol, sentinel(symbol)), 1, <<>>, <<0>>)

\* faulty variant: the sentinel is popped on normal return only
trains_pop_on_return(appended, raising) ==
    IF raising THEN appended ELSE SubSeq(appended, 1, Len(appended) - 1)

\* the finally clause (369-371): symbol.pop(), on return and on raise alike
trains_finally(appended, raising) == SubSeq(appended, 1, Len(appended) - 1)

\* The call on the list object `lst` of heap `h`: the sentinel is a new record
\* appended to the caller's own list (344); the loop runs inside try; the finally
\* clause pops.  A record no list refers to any more is freed.
canonical_2_adic_trains(h, lst) ==
    LET symbol == Vals(h, lst) IN
    IF sentinel_raises(symbol)
    THEN [heap |-> h, list |-> lst, raised |-> TRUE, value |-> <<>>]
    ELSE LET a        == Len(h) + 1
             h1       == Append(h, sentinel(symbol))
             appended == Append(lst, a)
             r        == trains_loop(Vals(h1, appended), 1, <<>>, <<0>>)
             final    == trains_finally(appended, r.raised)
         IN  [heap   |-> IF InList(a, final) THEN h1 ELSE h,
              list   |-> final,
              raised |-> r.raised,
              value  |-> r.value]

(***************************************************************************)
(* canonical_2_adic_reduction (genus.py 429-459).                          *)
(***************************************************************************)
\* faulty variant: a new list holding the caller's own records
shallow_copy(h, lst) == [heap |-> h, list |-> lst]

\* copy.deepcopy (430): a new list of new records with the same contents.  The
\* records of a symbol list are distinct objects, so no sharing is to be kept.
deepcopy(h, lst) ==
    [heap |-> h \o Vals(h, lst),
     list |-> [j \in 1 .. Len(lst) |-> Len(h) + j]]

\* faulty variant: d is reduced mod 8 before the test
canonical_determinant_mod8(d) == IF d % 8 \in {1, 7} THEN 1 ELSE -1

\* faulty variant: only d = 1 is a square class
canonical_determinant_only1(d) == IF d = 1 THEN 1 ELSE -1

\* lines 434-438: d in (1,7) gives 1, anything else -1
canonical_determinant(d) == IF d \in {1, 7} THEN 1 ELSE -1

\* the loop of lines 433-438
canonical_determinants(symbol) ==
    [j \in 1 .. Len(symbol) |->
        [symbol[j] EXCEPT ![3] = canonical_determinant(@)]]

\* sum([symbol[i][4] for i in compart]) (442)
RECURSIVE sum_oddity(_, _, _)
sum_oddity(symbol, compart, k) ==
    IF k > Len(compart)
    THEN 0
    ELSE Item(Item(symbol, compart[k]), 4) + sum_oddity(symbol, compart, k + 1)

\* faulty variant: the members' oddities are not zeroed
fuse_compartment_keep_members(symbol, compart) ==
    SetField(symbol, compart[1], 4, sum_oddity(symbol, compart, 1) % 8)

\* faulty variant: the sum is written over the first member's parity flag
fuse_compartment_into_parity(symbol, compart) ==
    LET oddity == sum_oddity(symbol, compart, 1) % 8
        zeroed == [j \in 1 .. Len(symbol) |->
                      IF InList(j - 1, compart)
                      THEN [symbol[j] EXCEPT ![5] = 0]
                      ELSE symbol[j]]
    IN  SetField(zeroed, compart[1], 3, oddity)

\* lines 442-445 for one compartment
fuse_compartment(symbol, compart) ==
    LET oddity == sum_oddity(symbol, compart, 1) % 8
        zeroed == [j \in 1 .. Len(symbol) |->
                      IF InList(j - 1, compart)
                      THEN [symbol[j] EXCEPT ![5] = 0]
                      ELSE symbol[j]]
    IN  SetField(zeroed, compart[1], 4, oddity)

\* for compart in compartments (441-445), from the k-th compartment on
RECURSIVE oddity_fusion(_, _, _)
oddity_fusion(symbol, compartments, k) ==
    IF k > Len(compartments)
    THEN symbol
    ELSE oddity_fusion(fuse_compartment(symbol, compartments[k]), compartments, k + 1)

\* faulty variant: only a step across the compartment's boundary counts
walk_straddles(t1, compart) == InList(t1 - 1, compart) # InList(t1, compart)

\* the condition of line 456
walk_touches(t1, compart) == InList(t1 - 1, compart) \/ InList(t1, compart)

\* for compart in compartments (455-458), from the k-th compartment on
RECURSIVE walk_compartments(_, _, _, _)
walk_compartments(cs, t1, compartments, k) ==
    IF k > Len(compartments)
    THEN cs
    ELSE LET compart == compartments[k]
             o       == Item(Item(cs, compart[1]), 4)
         IN  IF walk_touches(t1, compart)
             THEN walk_compartments(SetField(cs, compart[1], 4, (o + 4) % 8),
                                    t1, compartments, k + 1)
             ELSE walk_compartments(cs, t1, compartments, k + 1)

\* faulty variant: block t1 keeps its sign
sign_walk_step_keep(cs, t1, compartments) ==
    LET b == SetField(cs, t1 - 1, 2, Item(Item(cs, t1 - 1), 2) * (-1))
    IN  walk_compartments(b, t1, compartments, 1)

\* faulty variant: block t1-1 is given the sign -1 instead of being flipped
sign_walk_step_set(cs, t1, compartments) ==
    LET a == SetField(cs, t1, 2, 1)
        b == SetField(a, t1 - 1, 2, -1)
    IN  walk_compartments(b, t1, compartments, 1)

\* lines 453-458: the sign of block t1 moves to block t1-1
sign_walk_step(cs, t1, compartments) ==
    LET a == SetField(cs, t1, 2, 1)
        b == SetField(a, t1 - 1, 2, Item(Item(a, t1 - 1), 2) * (-1))
    IN  walk_compartments(b, t1, compartments, 1)

\* for i in range(t-1) (450-458); st.cs is canonical_symbol, st.walks records
\* each sign-walk step taken: the block t1 and the symbol before and after it
RECURSIVE walk_train(_, _, _, _)
walk_train(st, train, i, compartments) ==
    IF i < Len(train) - 1
    THEN LET t1 == train[Len(train) - i] IN
         IF Item(Item(st.cs, t1), 2) = -1
         THEN LET cs2 == sign_walk_step(st.cs, t1, compartments) IN
              walk_train([cs    |-> cs2,
                          walks |-> Append(st.walks,
                                           [t1 |-> t1, pre |-> st.cs, post |-> cs2])],
                         train, i + 1, compartments)
         ELSE walk_train(st, train, i + 1, compartments)
    ELSE st

\* for train in trains (448-458), from the k-th train on
RECURSIVE sign_walking(_, _, _, _)
sign_walking(st, trains, k, compartments) ==
    IF k > Len(trains)
    THEN st
    ELSE sign_walking(walk_train(st, trains[k], 0, compartments),
                      trains, k + 1, compartments)

\* No reduction has run, or it raised before the stage was reached.
NoRed ==
    [raised |-> FALSE, work |-> <<>>, normalized |-> <<>>, compartments |-> <<>>,
     fused |-> <<>>, trains |-> <<>>, walks |-> <<>>]

\* Lines 432-459 on the working list holding the records `symbol`: whether the
\* call raised, the working list when it ended (work), and the values after
\* each of the three stages.
reduction_value(symbol) ==
    IF \E j \in 1 .. Len(symbol) : ~Has(symbol[j], 2)
    THEN [NoRed EXCEPT !.raised = TRUE, !.work = symbol]
    ELSE
    LET normalized == canonical_determinants(symbol)
        c          == canonical_2_adic_compartments(normalized)
    IN
    IF c.raised \/ \E j \in 1 .. Len(symbol) : ~Has(symbol[j], 4)
    THEN [NoRed EXCEPT !.raised = TRUE, !.work = normalized,
                       !.normalized = normalized]
    ELSE
    LET fused == oddity_fusion(normalized, c.value, 1)
        t     == trains_value(fused)
    IN
    IF t.raised
    THEN [NoRed EXCEPT !.raised = TRUE, !.work = fused, !.normalized = normalized,
                       !.compartments = c.value, !.fused = fused]
    ELSE
    LET w == sign_walking([cs |-> fused, walks |-> <<>>], t.value, 1, c.value) IN
    [raised |-> FALSE, work |-> w.cs, normalized |-> normalized,
     compartments |-> c.value, fused |-> fused, trains |-> t.value,
     walks |-> w.walks]

\* The call on the list object `lst` of heap `h`: the working list is a deep
\* copy (430-431), mutated in place and returned (459); when the call raises,
\* nothing refers to the copy any more and it is freed.
canonical_2_adic_reduction(h, lst) ==
    LET cp == deepcopy(h, lst)
        r  == reduction_value(Vals(cp.heap, cp.list))
        h1 == WriteBack(cp.heap, cp.list, r.work)
    IN  [heap   |-> IF r.raised THEN SubSeq(h1, 1, Len(h)) ELSE h1,
         raised |-> r.raised,
         value  |-> IF r.raised THEN <<>> ELSE cp.list,
         red    |-> r]

(***************************************************************************)
(* Inputs: symbol lists as p_adic_symbol builds them, scales strictly      *)
(* increasing from 0.                                                      *)
(***************************************************************************)
\* the scale of the j-th block, given the gaps between consecutive scales
RECURSIVE scale_of(_, _)
scale_of(gaps, j) == IF j = 1 THEN 0 ELSE scale_of(gaps, j - 1) + gaps[j - 1]

\* [n, d, s, o] of a 2-adic block: determinant, parity and oddity varied
QuintupleBlocks ==
    {<<1, d, so[1], so[2]>> : d \in DetClasses, so \in ParityOddities}

\* [n, d, s, o] with only the parity varied (what compartments and trains read)
ParityBlocks == {<<1, 1, s, s>> : s \in Parities}

\* 2-adic blocks together with the [n, d] of an odd-prime triple [m, n, d]
ShapeBlocks == ParityBlocks \cup {<<1, 1>>}

\* the caller holds a list of at most maxlen blocks drawn from `blocks`
InitWith(maxlen, blocks) ==
    /\ \E k \in 0 .. maxlen :
         \E gaps \in [1 .. k - 1 -> ScaleGaps] :
           \E b \in [1 .. k -> blocks] :
             heap = [j \in 1 .. k |-> <<scale_of(gaps, j)>> \o b[j]]
    /\ sym = [j \in 1 .. Len(heap) |-> j]
    /\ arg = <<>>
    /\ before = <<>>
    /\ op = "none"
    /\ raised = FALSE
    /\ retIdx = <<>>
    /\ retSym = <<>>
    /\ red = NoRed
    /\ objs = <<>>
    /\ genus = <<>>
    /\ ret = None
    /\ representative = <<>>

Init == InitWith(MaxLen, QuintupleBlocks)
InitTrains == InitWith(MaxBlocks, ParityBlocks)
InitShapes == InitWith(MaxShapeLen, ShapeBlocks)

(***************************************************************************)
(* Calls.  The caller makes one call on its list `sym`; after a reduction  *)
(* it may hand the returned list to canonical_2_adic_reduction again.      *)
(***************************************************************************)
\* canonical_2_adic_compartments(sym)
Compartments ==
    /\ op = "none"
    /\ LET r == canonical_2_adic_compartments(Vals(heap, sym)) IN
       /\ heap' = heap
       /\ sym' = sym
       /\ arg' = sym
       /\ before' = Vals(heap, sym)
       /\ op' = "compartments"
       /\ raised' = r.raised
       /\ retIdx' = r.value
       /\ retSym' = <<>>
       /\ red' = NoRed
       /\ UNCHANGED <<objs, genus, ret, representative>>

\* canonical_2_adic_trains(sym)
Trains ==
    /\ op = "none"
    /\ LET r == canonical_2_adic_trains(heap, sym) IN
       /\ heap' = r.heap
       /\ sym' = r.list
       /\ arg' = r.list
       /\ before' = Vals(heap, sym)
       /\ op' = "trains"
       /\ raised' = r.raised
       /\ retIdx' = r.value
       /\ retSym' = <<>>
       /\ red' = NoRed
       /\ UNCHANGED <<objs, genus, ret, representative>>

\* canonical_2_adic_reduction(sym)
Reduction ==
    /\ op = "none"
    /\ LET r == canonical_2_adic_reduction(heap, sym) IN
       /\ heap' = r.heap
       /\ sym' = sym
       /\ arg' = sym
       /\ before' = Vals(heap, sym)
       /\ op' = "reduction"
       /\ raised' = r.raised
       /\ retIdx' = <<>>
       /\ retSym' = r.value
       /\ red' = r.red
       /\ UNCHANGED <<objs, genus, ret, representative>>

\* canonical_2_adic_reduction(result of the previous canonical_2_adic_reduction)
ReductionAgain ==
    /\ op = "reduction"
    /\ ~raised
    /\ LET r == canonical_2_adic_reduction(heap, retSym) IN
       /\ heap' = r.heap
       /\ sym' = sym
       /\ arg' = retSym
       /\ before' = Vals(heap, retSym)
       /\ op' = "reduction_again"
       /\ raised' = r.raised
       /\ retIdx' = <<>>
       /\ retSym' = r.value
       /\ red' = r.red
       /\ UNCHANGED <<objs, genus, ret, representative>>

Next ==
    \/ Compartments
    \/ Trains
    \/ Reduction
    \/ ReductionAgain

Spec == Init /\ [][Next]_vars
SpecTrains == InitTrains /\ [][Next]_vars
SpecShapes == InitShapes /\ [][Next]_vars

(***************************************************************************)
(* Properties.                                                             *)
(***************************************************************************)
ReductionDone == op \in {"reduction", "reduction_again"} /\ ~raised

\* the blocks of the list the last reduction returned
Out == Vals(heap, retSym)

Sign(blk) == Item(blk, 2)
Parity(blk) == Item(blk, 3)
Oddity(blk) == Item(blk, 4)
Scale(blk) == Item(blk, 0)

\* concatenation of a list of lists
RECURSIVE Flatten(_, _)
Flatten(ll, k) == IF k > Len(ll) THEN <<>> ELSE ll[k] \o Flatten(ll, k + 1)

\* the indices 0 .. n-1 in order
Indices(n) == [j \in 1 .. n |-> j - 1]

\* C1: canonical_2_adic_reduction applied to its own result returns a list with
\* the same contents as that result
C1_Idempotent ==
    op = "reduction_again" => (~raised /\ Out = before)

\* a second reduction of a result in which a sign was walked and an oddity changed
C1_Witness ==
    /\ op = "reduction_again"
    /\ ~raised
    /\ Len(sym) = 2
    /\ Sign(heap[sym[2]]) \in {3, 5}
    /\ Sign(before[1]) = -1
    /\ Oddity(before[1]) # Oddity(heap[sym[1]])

\* C2: on a non-empty symbol the trains, concatenated in the order returned, are
\* exactly 0, 1, ..., len-1, and no train is empty: a partition into contiguous
\* increasing ranges, listed in increasing order
C2_TrainsPartition ==
    (op = "trains" /\ Len(before) > 0) =>
        /\ ~raised
        /\ \A k \in 1 .. Len(retIdx) : Len(retIdx[k]) > 0
        /\ Flatten(retIdx, 1) = Indices(Len(before))

\* several trains, one of them of several blocks
C2_Witness ==
    /\ op = "trains"
    /\ ~raised
    /\ Len(retIdx) >= 2
    /\ \E k \in 1 .. Len(retIdx) : Len(retIdx[k]) >= 2

\* C3: every compartment of a symbol lies inside exactly one of its trains
C3_CompartmentInOneTrain ==
    (op = "trains" /\ ~raised) =>
        LET c == canonical_2_adic_compartments(before) IN
        /\ ~c.raised
        /\ \A k \in 1 .. Len(c.value) :
             Cardinality({t \in 1 .. Len(retIdx) :
                            \A p \in 1 .. Len(c.value[k]) :
                              InList(c.value[k][p], retIdx[t])}) = 1

\* several trains, and a compartment of several blocks
C3_Witness ==
    /\ op = "trains"
    /\ ~raised
    /\ Len(retIdx) >= 2
    /\ \E k \in 1 .. Len(canonical_2_adic_compartments(before).value) :
         Len(canonical_2_adic_compartments(before).value[k]) >= 2

\* C4: in the list canonical_2_adic_reduction returns, every block of a train
\* other than the train's first has sign +1, and the first has sign +1 or -1
C4_OneSignPerTrain ==
    ReductionDone =>
        LET t == trains_value(Out) IN
        /\ ~t.raised
        /\ \A k \in 1 .. Len(t.value) :
             \A p \in 1 .. Len(t.value[k]) :
               IF p = 1
               THEN Sign(Item(Out, t.value[k][p])) \in {1, -1}
               ELSE Sign(Item(Out, t.value[k][p])) = 1

\* a sign was walked down a train of several blocks and sits on its first block
C4_Witness ==
    /\ op = "reduction"
    /\ ~raised
    /\ Len(red.walks) > 0
    /\ \E k \in 1 .. Len(red.trains) :
         /\ Len(red.trains[k]) >= 2
         /\ Sign(Item(Out, red.trains[k][1])) = -1

Straddles(t1, compart) == InList(t1 - 1, compart) # InList(t1, compart)
Touches(t1, compart) == InList(t1 - 1, compart) \/ InList(t1, compart)

\* every sign-walk step adds 4 mod 8 to the oddity of the first block of exactly
\* the compartments it straddles (straddleOnly) or touches, and leaves the first
\* blocks of the other compartments as they were
WalkAdds4(straddleOnly) ==
    \A w \in 1 .. Len(red.walks) :
      \A k \in 1 .. Len(red.compartments) :
        LET compart == red.compartments[k]
            t1      == red.walks[w].t1
            pre     == Oddity(Item(red.walks[w].pre, compart[1]))
            post    == Oddity(Item(red.walks[w].post, compart[1]))
            hit     == IF straddleOnly THEN Straddles(t1, compart) ELSE Touches(t1, compart)
        IN  post = IF hit THEN (pre + 4) % 8 ELSE pre

\* C5 as stated: a sign-walk step from t1 to t1-1 adds 4 mod 8 to a compartment's
\* fused oddity exactly when one of t1-1, t1 is inside the compartment and the
\* other outside
C5_Original == ReductionDone => WalkAdds4(TRUE)

\* C5 as amended: a sign-walk step from t1 to t1-1 adds 4 mod 8 to the fused oddity
\* of exactly the compartments that contain t1-1 or t1 (once each, also when both
\* are members of the same compartment), and changes no other oddity
C5_WalkAdds4WhenTouched ==
    ReductionDone =>
        /\ WalkAdds4(FALSE)
        /\ \A w \in 1 .. Len(red.walks) :
             \A j \in 1 .. Len(red.walks[w].pre) :
               (\A k \in 1 .. Len(red.compartments) : red.compartments[k][1] # j - 1)
                 => Oddity(red.walks[w].post[j]) = Oddity(red.walks[w].pre[j])

\* a step between two members of one compartment, which changed its oddity
C5_Witness ==
    /\ ReductionDone
    /\ \E w \in 1 .. Len(red.walks) :
         \E k \in 1 .. Len(red.compartments) :
           /\ InList(red.walks[w].t1 - 1, red.compartments[k])
           /\ InList(red.walks[w].t1, red.compartments[k])
           /\ Oddity(Item(red.walks[w].post, red.compartments[k][1]))
                # Oddity(Item(red.walks[w].pre, red.compartments[k][1]))

\* C6 as stated: step 1 sets the class to +1 if d mod 8 is 1 or 7, else to -1
C6_Original ==
    ReductionDone =>
        \A j \in 1 .. Len(before) :
          Sign(red.normalized[j]) = IF Sign(before[j]) % 8 \in {1, 7} THEN 1 ELSE -1

\* C6 as amended: step 1 sets the class to +1 if d is 1 or 7 and to -1 for every
\* other d, without reducing d mod 8: d = -1 stays -1
C6_NormalizedExact ==
    ReductionDone =>
        /\ Len(red.normalized) = Len(before)
        /\ \A j \in 1 .. Len(before) :
             Sign(red.normalized[j]) = IF Sign(before[j]) \in {1, 7} THEN 1 ELSE -1

\* a reduction of a symbol holding an already normalized class -1, and a class 7
C6_Witness ==
    /\ op = "reduction_again"
    /\ ~raised
    /\ \E j \in 1 .. Len(before) :
         Sign(before[j]) = -1 /\ Sign(red.normalized[j]) = -1
    /\ \E j \in 1 .. Len(sym) : Sign(heap[sym[j]]) = 7

\* C7: after canonical_2_adic_reduction the list it was given holds the same
\* records with the same contents as before the call, and the returned list
\* holds none of those records
C7_ArgumentUntouched ==
    op \in {"reduction", "reduction_again"} =>
        /\ Vals(heap, arg) = before
        /\ \A j \in 1 .. Len(retSym) : ~InList(retSym[j], arg)

\* a reduction whose result differs from its argument
C7_Witness ==
    /\ op = "reduction"
    /\ ~raised
    /\ Len(retSym) = Len(arg)
    /\ Out # before

\* C8: after canonical_2_adic_trains, returned or raised, the caller's list holds
\* the same records as before the call, in the same order, with the same contents
C8_ListRestored ==
    op = "trains" =>
        /\ sym = [j \in 1 .. Len(before) |-> j]
        /\ Vals(heap, sym) = before

\* a call that raised after the sentinel was appended
C8_Witness ==
    /\ op = "trains"
    /\ raised
    /\ Len(before) >= 2

\* the condition under which index i starts a new train
NewTrainCondition(prev, cur) ==
    \/ Scale(cur) - Scale(prev) > 2
    \/ Scale(cur) - Scale(prev) = 2 /\ (Parity(prev) = 0 \/ Parity(cur) = 0)
    \/ Parity(prev) = 0 /\ Parity(cur) = 0

\* C9: index i >= 1 is the first index of a train exactly when the scale gap to
\* block i-1 exceeds 2, or is 2 with one of the two blocks even, or both blocks
\* are even; otherwise i follows i-1 inside the same train
C9_NewTrainExactly ==
    (op = "trains" /\ ~raised) =>
        \A i \in 1 .. Len(before) - 1 :
          IF NewTrainCondition(Item(before, i - 1), Item(before, i))
          THEN \E k \in 2 .. Len(retIdx) : retIdx[k][1] = i
          ELSE \E k \in 1 .. Len(retIdx) :
                 \E p \in 2 .. Len(retIdx[k]) :
                   retIdx[k][p] = i /\ retIdx[k][p - 1] = i - 1

\* one index starts a train at gap 2 next to an even block, another extends its
\* train at gap 2 between odd blocks
C9_Witness ==
    /\ op = "trains"
    /\ ~raised
    /\ \E i \in 1 .. Len(before) - 1 :
         /\ Scale(Item(before, i)) - Scale(Item(before, i - 1)) = 2
         /\ Parity(Item(before, i)) * Parity(Item(before, i - 1)) = 0
         /\ \E k \in 2 .. Len(retIdx) : retIdx[k][1] = i
    /\ \E i \in 1 .. Len(before) - 1 :
         /\ Scale(Item(before, i)) - Scale(Item(before, i - 1)) = 2
         /\ Parity(Item(before, i)) * Parity(Item(before, i - 1)) = 1
         /\ \E k \in 1 .. Len(retIdx) : InList(i, retIdx[k]) /\ InList(i - 1, retIdx[k])

\* indices a .. b form a run of odd blocks with consecutive scales
IsRun(symbol, a, b) ==
    \A i \in a .. b :
      /\ Parity(Item(symbol, i)) = 1
      /\ i > a => Scale(Item(symbol, i)) = Scale(Item(symbol, i - 1)) + 1

\* a run that cannot be extended at either end
IsMaximalRun(symbol, a, b) ==
    /\ a <= b
    /\ IsRun(symbol, a, b)
    /\ ~(a > 0 /\ IsRun(symbol, a - 1, b))
    /\ ~(b < Len(symbol) - 1 /\ IsRun(symbol, a, b + 1))

\* C10: the compartments returned are the maximal runs of consecutive odd blocks
\* with consecutive scales, each once, in increasing order; they cover every odd
\* block and no even block, none is empty, and there is none without an odd block
C10_CompartmentsAreMaximalRuns ==
    op = "compartments" =>
        /\ ~raised
        /\ \A k \in 1 .. Len(retIdx) :
             /\ Len(retIdx[k]) > 0
             /\ retIdx[k] = [p \in 1 .. Len(retIdx[k]) |-> retIdx[k][1] + p - 1]
             /\ IsMaximalRun(before, retIdx[k][1], retIdx[k][Len(retIdx[k])])
             /\ k > 1 => retIdx[k - 1][Len(retIdx[k - 1])] < retIdx[k][1]
        /\ \A i \in 0 .. Len(before) - 1 :
             Cardinality({k \in 1 .. Len(retIdx) : InList(i, retIdx[k])})
               = IF Parity(Item(before, i)) = 1 THEN 1 ELSE 0

\* two compartments, the first of several blocks, and an even block outside them
C10_Witness ==
    /\ op = "compartments"
    /\ Len(retIdx) >= 2
    /\ Len(retIdx[1]) >= 2
    /\ \E i \in 0 .. Len(before) - 1 : Parity(Item(before, i)) = 0

(***************************************************************************)
(* is_2_adic_genus (genus.py 180-199).                                     *)
(***************************************************************************)
MaxQuintuples == 2   \* records per list handed to is_2_adic_genus

Oddities == 0 .. 7

\* faulty variant: the last test (196-197) is left out
conway_sloane_rejects_no_even_test(s) ==
    \/ Item(s, 1) = 1 /\ (Item(s, 3) = 0 \/ Item(s, 2) # Item(s, 4))
    \/ Item(s, 1) = 2 /\ Item(s, 3) = 1 /\
         \/ Item(s, 2) % 8 \in {1, 7} /\ ~(Item(s, 4) \in {0, 2, 6})
         \/ Item(s, 2) % 8 \in {3, 5} /\ ~(Item(s, 4) \in {2, 4, 6})
    \/ (Item(s, 1) - Item(s, 4)) % 2 = 1

\* the tests of lines 185-197 on the quintuple s: TRUE when one of them
\* returns False
conway_sloane_rejects(s) ==
    \/ Item(s, 1) = 1 /\ (Item(s, 3) = 0 \/ Item(s, 2) # Item(s, 4))
    \/ Item(s, 1) = 2 /\ Item(s, 3) = 1 /\
         \/ Item(s, 2) % 8 \in {1, 7} /\ ~(Item(s, 4) \in {0, 2, 6})
         \/ Item(s, 2) % 8 \in {3, 5} /\ ~(Item(s, 4) \in {2, 4, 6})
    \/ (Item(s, 1) - Item(s, 4)) % 2 = 1
    \/ Item(s, 3) = 0 /\ Item(s, 4) # 0

\* the for loop (180-198) from the k-th record on: the length test raises, a
\* failed test returns False at once, the end of the list returns True
RECURSIVE is_2_adic_genus_loop(_, _)
is_2_adic_genus_loop(list, k) ==
    IF k > Len(list) THEN Return(TRUE)
    ELSE IF Len(list[k]) # 5 THEN Raise
    ELSE IF conway_sloane_rejects(list[k]) THEN Return(FALSE)
    ELSE is_2_adic_genus_loop(list, k + 1)

is_2_adic_genus(genus_symbol_quintuple_list) ==
    is_2_adic_genus_loop(genus_symbol_quintuple_list, 1)

\* [n, d, s, o] of the records handed to is_2_adic_genus: ranks 1 and 2 (the
\* ranks the tests name) with every d, s and o, rank 3 with every s and o (no
\* test reads the d of such a block), and the [n, d] of an odd-prime triple
GenusRecords ==
    {<<n, d, s, o>> : n \in {1, 2}, d \in DetClasses, s \in Parities, o \in Oddities}
        \cup {<<3, 1, s, o>> : s \in Parities, o \in Oddities}
        \cup {<<1, 1>>}

\* the caller holds a list of at most MaxQuintuples records at scales 0, 1, ...
InitWellFormed ==
    /\ \E k \in 0 .. MaxQuintuples :
         \E b \in [1 .. k -> GenusRecords] :
           heap = [j \in 1 .. k |-> <<j - 1>> \o b[j]]
    /\ sym = [j \in 1 .. Len(heap) |-> j]
    /\ arg = <<>>
    /\ before = <<>>
    /\ op = "none"
    /\ raised = FALSE
    /\ retIdx = <<>>
    /\ retSym = <<>>
    /\ red = NoRed
    /\ objs = <<>>
    /\ genus = <<>>
    /\ ret = None
    /\ representative = <<>>

\* is_2_adic_genus(sym)
IsTwoAdicGenus ==
    /\ op = "none"
    /\ LET r == is_2_adic_genus(Vals(heap, sym)) IN
       /\ arg' = sym
       /\ before' = Vals(heap, sym)
       /\ op' = "is_2_adic_genus"
       /\ raised' = r.raised
       /\ ret' = IF r.raised THEN None ELSE r.value
       /\ UNCHANGED <<heap, sym, retIdx, retSym, red, objs, genus, representative>>

NextWellFormed == IsTwoAdicGenus

SpecWellFormed == InitWellFormed /\ [][NextWellFormed]_vars

\* the four conditions on one quintuple, as implications
QuintupleConditions(q) ==
    /\ Item(q, 1) = 1 => (Item(q, 3) # 0 /\ Item(q, 2) = Item(q, 4))
    /\ (Item(q, 1) = 2 /\ Item(q, 3) = 1) =>
         /\ Item(q, 2) % 8 \in {1, 7} => Item(q, 4) \in {0, 2, 6}
         /\ Item(q, 2) % 8 \in {3, 5} => Item(q, 4) \in {2, 4, 6}
    /\ \E h \in -4 .. 4 : Item(q, 1) - Item(q, 4) = 2 * h
    /\ Item(q, 3) = 0 => Item(q, 4) = 0

AllQuintuples(list) == \A j \in 1 .. Len(list) : Len(list[j]) = 5

\* C15: on a list of quintuples is_2_adic_genus returns True exactly when every
\* quintuple (m,n,d,s,o) satisfies: n = 1 implies s # 0 and d = o; n = 2 and
\* s = 1 imply o in {0,2,6} when d mod 8 is 1 or 7 and o in {2,4,6} when d mod 8
\* is 3 or 5; n - o is even; s = 0 implies o = 0.  The empty list gives True.
C15_TrueIffEveryQuintuplePasses ==
    (op = "is_2_adic_genus" /\ AllQuintuples(before)) =>
        /\ ~raised
        /\ ret = (\A j \in 1 .. Len(before) : QuintupleConditions(before[j]))
        /\ Len(before) = 0 => ret = TRUE

\* two quintuples: the first passes, the second is rejected by a test that is
\* not the first one, and False is returned
C15_Witness ==
    /\ op = "is_2_adic_genus"
    /\ Len(before) = 2
    /\ AllQuintuples(before)
    /\ QuintupleConditions(before[1])
    /\ Item(before[2], 1) = 2
    /\ Item(before[2], 3) = 0
    /\ Item(before[2], 4) = 2
    /\ ret = FALSE

\* C16: is_2_adic_genus raises, and returns no boolean, whenever its list holds a
\* record whose length is not 5, wherever in the list the record stands
C16_RaisesOnAnyMalformedRecord ==
    (op = "is_2_adic_genus" /\ ~AllQuintuples(before)) =>
        (raised /\ ret = None)

(***************************************************************************)
(* Genus_Symbol_p_adic_ring (genus.py 895-1602).  An object is a record of *)
(* its three attributes; `objs` holds the objects, `_symbol` and a filled  *)
(* `_canonical_symbol` are lists of addresses into `heap`.  A method is an *)
(* operator of the heap, the objects and the index of self; it gives the   *)
(* heap and objects it leaves, whether it raised, and its value.           *)
(***************************************************************************)
\* the one element of a set of one element: the value of an expression in
\* which the result of an earlier call is bound
Only(S) == CHOOSE x \in S : TRUE

Outcome(h, os, r, v) == [heap |-> h, objs |-> os, raised |-> r, value |-> v]

\* __init__ (966-970): the list handed in is kept, not copied; no cache yet
Genus_Symbol_p_adic_ring(prime, symbol) ==
    [_prime |-> prime, _symbol |-> symbol, _canonical_symbol |-> None]

\* faulty variant: the reduction is computed on every call and never stored
canonical_symbol_uncached(h, os, i) ==
    IF os[i]._prime = 2
    THEN Only({Outcome(r.heap, os, r.raised, IF r.raised THEN None ELSE r.value) :
               r \in {canonical_2_adic_reduction(h, os[i]._symbol)}})
    ELSE Outcome(h, os, FALSE, os[i]._symbol)

\* canonical_symbol (1227-1233)
canonical_symbol(h, os, i) ==
    IF os[i]._prime = 2
    THEN IF os[i]._canonical_symbol = None
         THEN Only({IF r.raised
                    THEN Outcome(r.heap, os, TRUE, None)
                    ELSE Outcome(r.heap, [os EXCEPT ![i]._canonical_symbol = <<r.value>>],
                                 FALSE, r.value) :
                    r \in {canonical_2_adic_reduction(h, os[i]._symbol)}})
         ELSE Outcome(h, os, FALSE, os[i]._canonical_symbol[1])
    ELSE Outcome(h, os, FALSE, os[i]._symbol)

\* faulty variant: the lists given to the constructors are compared
eq_raw(h, os, i, j) ==
    IF os[i]._prime # os[j]._prime
    THEN Outcome(h, os, FALSE, FALSE)
    ELSE Outcome(h, os, FALSE, Vals(h, os[i]._symbol) = Vals(h, os[j]._symbol))

\* __eq__ (1114-1117), self = os[i], other = os[j]: the two canonical symbols
\* are computed left to right and compared as lists of lists, by value
eq(h, os, i, j) ==
    IF os[i]._prime # os[j]._prime
    THEN Outcome(h, os, FALSE, FALSE)
    ELSE Only({IF a.raised THEN a
               ELSE Only({IF b.raised THEN b
                          ELSE Outcome(b.heap, b.objs, FALSE,
                                       Vals(b.heap, a.value) = Vals(b.heap, b.value)) :
                          b \in {canonical_symbol(a.heap, a.objs, j)}}) :
               a \in {canonical_symbol(h, os, i)}})

\* __ne__ (1153): not self == other
ne(h, os, i, j) ==
    Only({IF e.raised THEN e ELSE [e EXCEPT !.value = ~e.value] :
          e \in {eq(h, os, i, j)}})

\* trains (1568-1571): canonical_2_adic_trains works on self._symbol itself
trains(h, os, i) ==
    IF os[i]._prime # 2
    THEN Outcome(h, os, TRUE, None)
    ELSE Only({Outcome(r.heap, [os EXCEPT ![i]._symbol = r.list], r.raised,
                       IF r.raised THEN None ELSE r.value) :
               r \in {canonical_2_adic_trains(h, os[i]._symbol)}})

\* compartments (1599-1602)
compartments(h, os, i) ==
    IF os[i]._prime # 2
    THEN Outcome(h, os, TRUE, None)
    ELSE LET r == canonical_2_adic_compartments(Vals(h, os[i]._symbol)) IN
         Outcome(h, os, r.raised, IF r.raised THEN None ELSE r.value)

\* sum([f(s) for s in symbol]) from the k-th record on, f given by `which`:
\* "oddity" is s[4], "rank_scale" is s[1]*(p**s[0]-1)
RECURSIVE excess_sum(_, _, _, _)
excess_sum(symbol, p, which, k) ==
    IF k > Len(symbol) THEN 0
    ELSE (IF which = "oddity"
          THEN Item(symbol[k], 4)
          ELSE Item(symbol[k], 1) * (p ^ Item(symbol[k], 0) - 1))
         + excess_sum(symbol, p, which, k + 1)

\* faulty variant: the scale is not tested
excess_k_any_scale(symbol, dets) ==
    Cardinality({j \in 1 .. Len(symbol) : Item(symbol[j], 2) \in dets})

\* the counter k of the loops 1525-1527 and 1531-1533: blocks of odd scale
\* whose d is one of `dets`
excess_k(symbol, dets) ==
    Cardinality({j \in 1 .. Len(symbol) :
                   Item(symbol[j], 0) % 2 = 1 /\ Item(symbol[j], 2) \in dets})

\* excess (1522-1534) of a symbol whose records have every field read
excess_value(p, symbol) ==
    IF p = 2
    THEN (excess_sum(symbol, p, "oddity", 1) + 4 * excess_k(symbol, {3, 5})) % 8
    ELSE (excess_sum(symbol, p, "rank_scale", 1) + 4 * excess_k(symbol, {-1})) % 8

\* a record on which the loops and sums of excess raise IndexError: at p = 2
\* s[4] is read of every record; at an odd prime s[0] and s[1] of every record
\* and s[2] of the records of odd scale
excess_raises_on(p, s) ==
    IF p = 2
    THEN ~Has(s, 4)
    ELSE ~Has(s, 1) \/ (Item(s, 0) % 2 = 1 /\ ~Has(s, 2))

excess(h, os, i) ==
    LET symbol == Vals(h, os[i]._symbol) IN
    IF \E j \in 1 .. Len(symbol) : excess_raises_on(os[i]._prime, symbol[j])
    THEN Outcome(h, os, TRUE, None)
    ELSE Outcome(h, os, FALSE, excess_value(os[i]._prime, symbol))

\* the string "%s^%s" % (q, e)
power_string(q, e) == ToString(q) \o "^" \o ToString(e)

\* `comp` at line 1019: the variable of the loop of lines 1004-1006, which has
\* run to its end, so the last compartment whatever bracket is being closed
closing_compartment(comps, block_index) == comps[Len(comps)]

\* the loop of lines 1008-1021 over one train, from its k-th index on
RECURSIVE repr_train(_, _, _, _, _)
repr_train(CS, comps, train, k, CS_string) ==
    IF k > Len(train) THEN CS_string
    ELSE
    LET block_index        == train[k]
        compartment_begins == [c \in 1 .. Len(comps) |-> Item(comps[c], 0)]
        compartment_ends   == [c \in 1 .. Len(comps) |-> comps[c][Len(comps[c])]]
        block              == Item(CS, block_index)
        opened == IF InList(block_index, compartment_begins)
                  THEN CS_string \o "["
                  ELSE CS_string
        withblock == opened
                       \o power_string(2 ^ Item(block, 0), Item(block, 2) * Item(block, 1))
                       \o " "
        closed == IF InList(block_index, compartment_ends)
                  THEN LET comp   == closing_compartment(comps, block_index)
                           oddity == Item(Item(CS, Item(comp, 0)), 4)
                       IN  SubSeq(withblock, 1, Len(withblock) - 1) \o "]"
                             \o "_" \o ToString(oddity)
                  ELSE withblock
    IN  repr_train(CS, comps, train, k + 1, closed)

\* the loop of lines 1001-1021 over the trains, from the k-th on
RECURSIVE repr_trains(_, _, _, _, _)
repr_trains(CS, comps, trs, k, CS_string) ==
    IF k > Len(trs) THEN CS_string
    ELSE repr_trains(CS, comps, trs, k + 1,
                     repr_train(CS, comps, trs[k], 1, CS_string \o " :"))

\* the loop of lines 1026-1027 at an odd prime p
RECURSIVE repr_odd(_, _, _)
repr_odd(p, symbol, k) ==
    IF k > Len(symbol) THEN ""
    ELSE " " \o power_string(p ^ Item(symbol[k], 0),
                             Item(symbol[k], 2) * Item(symbol[k], 1))
           \o repr_odd(p, symbol, k + 1)

\* line 1029
repr_line(p, CS_string) ==
    "Genus symbol at " \o ToString(p) \o ":    " \o CS_string

\* __repr__ (996-1029).  At p = 2 the canonical symbol is computed (and cached),
\* then the trains, then inside the loop the compartments; CS_string[2:] drops
\* the " :" that opens the first train.
repr(h, os, i) ==
    IF os[i]._prime = 2
    THEN Only({IF c.raised THEN c
               ELSE Only({IF t.raised THEN t
                          ELSE Only({IF Len(t.value) > 0 /\ k.raised THEN k
                                     ELSE LET CS_string ==
                                                  repr_trains(Vals(t.heap, c.value), k.value,
                                                              t.value, 1, "")
                                          IN  Outcome(t.heap, t.objs, FALSE,
                                                      repr_line(2, SubSeq(CS_string, 3,
                                                                          Len(CS_string)))) :
                                     k \in {compartments(t.heap, t.objs, i)}}) :
                          t \in {trains(c.heap, c.objs, i)}}) :
               c \in {canonical_symbol(h, os, i)}})
    ELSE LET symbol == Vals(h, os[i]._symbol) IN
         IF \E j \in 1 .. Len(symbol) : ~Has(symbol[j], 2)
         THEN Outcome(h, os, TRUE, None)
         ELSE Outcome(h, os, FALSE, repr_line(os[i]._prime, repr_odd(os[i]._prime, symbol, 1)))

(***************************************************************************)
(* Integer matrices and the Jordan decomposition (genus.py 485-501,        *)
(* 593-626, 657-660, 709-750, 791-795, 832-892).  A matrix is the sequence *)
(* of its rows.  The matrix library of Sage is not part of the sources; it *)
(* is modelled by what its operations compute.                             *)
(***************************************************************************)
\* sum(l) and prod(l) of a list of integers
RECURSIVE sum(_)
sum(l) == IF l = <<>> THEN 0 ELSE Head(l) + sum(Tail(l))

RECURSIVE prod(_)
prod(l) == IF l = <<>> THEN 1 ELSE Head(l) * prod(Tail(l))

\* Integer(a).kronecker(p), p prime: at 2 by the class of a mod 8, at an odd
\* prime the Legendre symbol
kronecker(a, p) ==
    IF p = 2
    THEN IF a % 2 = 0 THEN 0 ELSE IF a % 8 \in {1, 7} THEN 1 ELSE -1
    ELSE IF a % p = 0 THEN 0
         ELSE IF \E x \in 1 .. p - 1 : (x * x) % p = a % p THEN 1 ELSE -1

\* the symbol list [a + 1, ..., a + n]
ListAt(a, n) == [j \in 1 .. n |-> a + j]

\* matrix(rows): the matrix of the given rows, every entry computed
matrix(rows) == [i \in 1 .. Len(rows) |-> rows[i] \o <<>>] \o <<>>

\* A*B
mul(A, B) ==
    matrix([i \in 1 .. Len(A) |->
              [j \in 1 .. Len(B[1]) |-> sum([k \in 1 .. Len(B) |-> A[i][k] * B[k][j]])]])

\* A.transpose()
transpose(A) == matrix([j \in 1 .. Len(A[1]) |-> [i \in 1 .. Len(A) |-> A[i][j]]])

\* C*A*C.transpose()
gram(C, A) == mul(mul(C, A), transpose(C))

\* the matrix A over Z/m, its entries as the integers 0 .. m-1
reduce_mod(A, m) == matrix([i \in 1 .. Len(A) |-> [j \in 1 .. Len(A[i]) |-> A[i][j] % m]])

\* A without row i and column j
minor(A, i, j) ==
    matrix([r \in 1 .. Len(A) - 1 |->
              [c \in 1 .. Len(A) - 1 |->
                 A[IF r < i THEN r ELSE r + 1][IF c < j THEN c ELSE c + 1]]])

\* A.determinant(), by expansion along the first row
RECURSIVE det(_)
det(A) ==
    IF Len(A) = 0 THEN 1
    ELSE IF Len(A) = 1 THEN A[1][1]
    ELSE sum([j \in 1 .. Len(A) |->
                (IF j % 2 = 1 THEN 1 ELSE -1) * A[1][j] * det(minor(A, 1, j))])

\* c.valuation(p) of c # 0
RECURSIVE valuation(_, _)
valuation(c, p) == IF c % p # 0 THEN 0 ELSE 1 + valuation(c \div p, p)

\* min([c.valuation(p) for c in A.list()]): the entries 0 have valuation
\* +Infinity, and A is not the zero matrix
min_valuation(A, p) ==
    LET vs == {valuation(A[i][j], p) :
                 <<i, j>> \in {x \in (1 .. Len(A)) \X (1 .. Len(A)) : A[x[1]][x[2]] # 0}}
    IN  CHOOSE m \in vs : \A x \in vs : m <= x

\* A_p.kernel().echelonized_basis_matrix() over the field of p elements: the
\* basis in reduced row echelon form of the space of the v with v*A = 0
kernel_echelonized_basis(A, p) ==
    LET n == Len(A)
        K == {v \in [1 .. n -> 0 .. p - 1] :
                /\ \E c \in 1 .. n : v[c] # 0
                /\ \A j \in 1 .. n : sum([i \in 1 .. n |-> v[i] * A[i][j]]) % p = 0}
        lead(v) == CHOOSE c \in 1 .. n : v[c] # 0 /\ \A j \in 1 .. c - 1 : v[j] = 0
        pivots == {lead(v) : v \in K}
        row(c) == CHOOSE v \in K :
                    /\ lead(v) = c
                    /\ v[c] = 1
                    /\ \A c2 \in pivots \ {c} : v[c2] = 0
    IN  matrix([k \in 1 .. Cardinality(pivots) |->
                  row(CHOOSE c \in pivots : Cardinality({x \in pivots : x < c}) = k - 1)])

\* the loops of lines 492-500 from row i and column j on (both 0-based): the
\* columns in which the rows of C get their 1, in the order of l.  Every row of
\* an echelonized basis has an entry that is not 0 at or after column k.
RECURSIVE complement_columns(_, _, _, _)
complement_columns(B, n, i, j) ==
    IF i >= Len(B) THEN [x \in 1 .. n - j |-> j + x - 1]
    ELSE IF B[i + 1][j + 1] = 0 THEN <<j>> \o complement_columns(B, n, i, j + 1)
    ELSE complement_columns(B, n, i + 1, j + 1)

\* basis_complement (485-501) of a matrix B with n columns
basis_complement(B, n) ==
    LET cols == complement_columns(B, n, 0, 0) IN
    matrix([l \in 1 .. Len(cols) |-> [c \in 1 .. n |-> IF c = cols[l] + 1 THEN 1 ELSE 0]])

\* lines 610-625 (and 881-891): the matrix of the next blocks.  F is invertible
\* mod p; U is the inverse of F mod p^(val+3), with entries in 0 .. p^(val+3)-1
next_matrix(A, B, C, p, val) ==
    LET F    == gram(C, A)
        detF == det(F)
        abs  == IF detF < 0 THEN 0 - detF ELSE detF
        adj  == matrix([i \in 1 .. Len(F) |->
                          [j \in 1 .. Len(F) |->
                             (IF (i + j) % 2 = 0 THEN 1 ELSE -1) * det(minor(F, j, i))]])
        whole(e) == \A i \in 1 .. Len(F), j \in 1 .. Len(F) : (e * adj[i][j]) % abs = 0
        d    == CHOOSE e \in 1 .. abs : whole(e) /\ \A e2 \in 1 .. e - 1 : ~whole(e2)
        N    == p ^ (val + 3)
        u    == CHOOSE x \in 1 .. N - 1 : (x * d) % N = 1
        U    == matrix([i \in 1 .. Len(F) |->
                          [j \in 1 .. Len(F) |->
                             ((((d * adj[i][j]) \div detF) % N) * u) % N]])
        X    == mul(C, A)
        XUX  == mul(mul(transpose(X), U), X)
    IN  gram(B, matrix([i \in 1 .. Len(A) |->
                          [j \in 1 .. Len(A) |-> A[i][j] - XUX[i][j]]]))

\* is_even_matrix (657-660): <<even, i>>, i the first place (0-based) of the
\* diagonal that holds an odd entry
is_even_matrix(A) ==
    IF \E i \in 1 .. Len(A) : A[i][i] % 2 = 1
    THEN <<FALSE, (CHOOSE i \in 1 .. Len(A) :
                     A[i][i] % 2 = 1 /\ \A j \in 1 .. i - 1 : A[j][j] % 2 # 1) - 1>>
    ELSE <<TRUE, -1>>

\* the loops of lines 716-723 and 737-744, over Z/8: C*A*C.transpose() for the
\* C that splits off the i-th basis vector (0-based), u = A[i,i]
split_complement(A, i, u) ==
    LET C == matrix([j \in 1 .. Len(A) - 1 |->
                       [c \in 1 .. Len(A) |->
                          IF c = i + 1
                          THEN (0 - A[IF j - 1 < i THEN j ELSE j + 1][i + 1] * u) % 8
                          ELSE IF c = (IF j - 1 < i THEN j ELSE j + 1) THEN 1 ELSE 0]])
    IN  reduce_mod(gram(C, A), 8)

\* split_odd (709-750) of an odd matrix over Z/8: Return(<<u, B>>), or
\* RuntimeError
split_odd(A) ==
    IF Len(A) = 1 THEN Return(<<A[1][1], <<>>>>)
    ELSE LET i  == is_even_matrix(A)[2]
             u  == A[i + 1][i + 1]
             B  == split_complement(A, i, u)
         IN  IF ~is_even_matrix(B)[1] THEN Return(<<u, B>>)
             ELSE LET i2 == IF i = 0 THEN 1 ELSE 0
                      I  == matrix([r \in 1 .. Len(A) |->
                                      [c \in 1 .. Len(A) |->
                                         IF r = c THEN 1
                                         ELSE IF i = 0 /\ r = 2 /\ c = 1
                                         THEN (1 - A[2][1] * u) % 8
                                         ELSE IF i # 0 /\ r = 1 /\ c = i + 1
                                         THEN (1 - A[1][i + 1] * u) % 8
                                         ELSE 0]])
                      A2 == reduce_mod(gram(I, A), 8)
                      u2 == A2[i2 + 1][i2 + 1]
                      B2 == split_complement(A2, i2, u2)
                  IN  IF is_even_matrix(B2)[1] THEN Raise ELSE Return(<<u2, B2>>)

\* trace_diag_mod_8 (791-795): tr + the u split off A until nothing is left
RECURSIVE trace_diag_mod_8(_, _)
trace_diag_mod_8(A, tr) ==
    IF Len(A) = 0 THEN Return(tr % 8)
    ELSE Only({IF s.raised THEN Raise
               ELSE trace_diag_mod_8(s.value[2], tr + s.value[1]) :
               s \in {split_odd(A)}})

\* lines 846-857 and 867-880: [n0, d0, s, o] of the block of the matrix M,
\* which is invertible mod 2 (M is A in the first branch, A_new in the second)
two_adic_block(M) ==
    LET d0 == det(reduce_mod(M, 8)) % 8 IN
    IF d0 = 0 THEN Raise
    ELSE IF is_even_matrix(M)[1] THEN Return(<<Len(M), d0, 0, 0>>)
    ELSE Only({IF t.raised THEN Raise ELSE Return(<<Len(M), d0, 1, t.value>>) :
               t \in {trace_diag_mod_8(reduce_mod(M, 8), 0)}})

\* faulty variant: only the first block is moved to the scale m0
shift_first(l, m0) == <<<<Head(l)[1] + m0>> \o Tail(Head(l))>> \o Tail(l)

\* lines 626 and 892: [[s[0]+m0] + s[1:] for s in l]
shift(l, m0) == [k \in 1 .. Len(l) |-> <<l[k][1] + m0>> \o Tail(l[k])] \o <<>>

\* p_adic_symbol (593-626) and two_adic_symbol (832-892): Return(the list of
\* blocks), or Raise when a step of the 2-adic computation raises
RECURSIVE p_adic_symbol(_, _, _)
p_adic_symbol(A, p, val) ==
    LET m0 == min_valuation(A, p)
        A1 == matrix([i \in 1 .. Len(A) |->
                        [j \in 1 .. Len(A) |-> A[i][j] \div (p ^ m0)]])
        B  == kernel_echelonized_basis(reduce_mod(A1, p), p)
        C  == basis_complement(B, Len(A))
        first == IF p = 2 THEN two_adic_block(gram(C, A1))
                 ELSE Return(<<Len(C), kronecker(det(reduce_mod(gram(C, A1), p)) % p, p)>>)
    IN  IF first.raised THEN Raise
        ELSE IF Len(B) = 0 THEN Return(<<<<m0>> \o first.value>>)
        ELSE Only({IF rest.raised THEN Raise
                   ELSE Return(shift(<<<<0>> \o first.value>> \o rest.value, m0)) :
                   rest \in {p_adic_symbol(next_matrix(A1, B, C, p, val), p, val)}})

(***************************************************************************)
(* gram_matrix (1259-1269) and _gram_from_jordan_block (1945-2011).        *)
(***************************************************************************)
\* matrix.block_diagonal(qL)
RECURSIVE block_diagonal(_)
block_diagonal(qL) ==
    IF qL = <<>> THEN <<>>
    ELSE LET q == Head(qL)
             rest == block_diagonal(Tail(qL))
         IN  matrix([i \in 1 .. Len(q) |-> q[i] \o [j \in 1 .. Len(rest) |-> 0]]
                      \o [i \in 1 .. Len(rest) |-> [j \in 1 .. Len(q) |-> 0] \o rest[i]])

\* k * [q]: the list of k copies of q, empty when k <= 0
copies(k, q) == [j \in 1 .. k |-> q]

\* _min_nonsquare(p) of normal_form.py: the least u > 0 that is not a square mod p
_min_nonsquare(p) ==
    CHOOSE u \in 1 .. p - 1 :
        kronecker(u, p) = -1 /\ \A w \in 1 .. u - 1 : kronecker(w, p) # -1

\* faulty variant: the determinants 3 and 7 are taken for -1
det_sign_mod_4(det0) == IF det0 \in {3, 7} THEN -1 ELSE 1

\* lines 1969-1972: det = -1 if det in [3, 5], else 1
det_sign(det0) == IF det0 \in {3, 5} THEN -1 ELSE 1

\* faulty variant: the list is not cut
whole_list(qL) == qL

\* qL[-2:] (1991): the last two entries, the whole list when it has fewer
last_two(qL) == SubSeq(qL, IF Len(qL) > 2 THEN Len(qL) - 1 ELSE 1, Len(qL))

\* the list qL of lines 1954-1991 for a 2-adic block of rank rk, determinant
\* det, parity o and oddity t
jordan_block_list(rk, det0, o, t) ==
    LET U == <<<<0, 1>>, <<1, 0>>>>
        V == <<<<2, 1>>, <<1, 2>>>>
        W(x) == <<<<x>>>>
        sign == det_sign(det0)
        last == IF <<sign, t>> = <<1, 0>> THEN <<U, W(1), W(7)>>
                ELSE IF <<sign, t>> = <<1, 2>> THEN <<U, W(1), W(1)>>
                ELSE IF <<sign, t>> = <<1, 4>> THEN <<V, W(1), W(3)>>
                ELSE IF <<sign, t>> = <<1, 6>> THEN <<U, W(7), W(7)>>
                ELSE IF <<sign, t>> = <<-1, 0>> THEN <<V, W(1), W(7)>>
                ELSE IF <<sign, t>> = <<-1, 2>> THEN <<U, W(3), W(7)>>
                ELSE IF <<sign, t>> = <<-1, 4>> THEN <<U, W(1), W(3)>>
                ELSE IF <<sign, t>> = <<-1, 6>> THEN <<U, W(1), W(5)>>
                ELSE <<>>
        even4 == copies((rk - 4) \div 2, U) \o last
    IN  IF o = 0
        THEN IF det0 \in {1, 7} THEN copies(rk \div 2, U)
             ELSE copies(rk \div 2 - 1, U) \o <<V>>
        ELSE IF rk % 2 = 1
        THEN copies((rk - 3) \div 2, U)
               \o (IF (t * det0) % 8 \in {3, 5} THEN <<V>>
                   ELSE IF rk >= 3 THEN <<U>> ELSE <<>>)
               \o <<W(t)>>
        ELSE IF rk = 2 THEN last_two(even4)
        ELSE even4

\* _gram_from_jordan_block(p, block), discr_form = False (1945-2011)
_gram_from_jordan_block(p, block) ==
    LET level == Item(block, 0)
        rk    == Item(block, 1)
        det0  == Item(block, 2)
        q     == IF p = 2
                 THEN block_diagonal(jordan_block_list(rk, det0, Item(block, 3), Item(block, 4)))
                 ELSE [i \in 1 .. rk |->
                         [j \in 1 .. rk |->
                            IF i # j THEN 0
                            ELSE IF i = 1 /\ det0 # 1 THEN _min_nonsquare(p) ELSE 1]]
    IN  matrix([i \in 1 .. Len(q) |-> [j \in 1 .. Len(q) |-> q[i][j] * p ^ level]])

\* gram_matrix(check=True) of os[i] (1259-1269).  The object made of symG is
\* the left operand of ==; neither it nor its lists are kept after the call, so
\* that of the lists made by the call only the canonical symbol of os[i] stays
gram_matrix(h, os, i) ==
    LET symbol == Vals(h, os[i]._symbol)
        p      == os[i]._prime
        G      == block_diagonal([k \in 1 .. Len(symbol) |-> _gram_from_jordan_block(p, symbol[k])])
        kept(e) == IF e.objs[i]._canonical_symbol = os[i]._canonical_symbol
                   THEN [heap |-> h, objs |-> os]
                   ELSE [heap |-> h \o Vals(e.heap, e.objs[i]._canonical_symbol[1]),
                         objs |-> [os EXCEPT ![i]._canonical_symbol =
                                       <<ListAt(Len(h), Len(e.objs[i]._canonical_symbol[1]))>>]]
    IN  Only({IF symG.raised THEN Outcome(h, os, TRUE, None)
              ELSE Only({Outcome(kept(e).heap, kept(e).objs, e.raised \/ ~e.value,
                                 IF e.raised \/ ~e.value THEN None ELSE G) :
                         e \in {eq(h \o symG.value,
                                   Append(os, Genus_Symbol_p_adic_ring(
                                                  p, ListAt(Len(h), Len(symG.value)))),
                                   Len(os) + 1, i)}}) :
              symG \in {p_adic_symbol(G, p, Item(symbol[Len(symbol)], 0))}})

(***************************************************************************)
(* Two local symbol objects: objs[1], on which the methods are called, and *)
(* objs[2], with which it is compared.                                     *)
(***************************************************************************)
MaxObjLen == 2   \* blocks per symbol of an object

ObjGaps == {1, 2}

\* [n, d, s, o] of the 2-adic blocks of the objects: the even plane U and the
\* odd lines <1> and <3>
ObjBlocks == {<<2, 7, 0, 0>>, <<1, 1, 1, 1>>, <<1, 3, 1, 3>>}

\* [n, d] of the blocks at an odd prime
OddBlocks == {<<1, 1>>, <<1, -1>>}

\* the blocks of a symbol at the prime p
BlocksAt(p) == IF p = 2 THEN ObjBlocks ELSE OddBlocks

\* the list of records with the blocks b at scales that grow by the gaps
ObjSymbol(gaps, b) == [j \in 1 .. Len(b) |-> <<scale_of(gaps, j)>> \o b[j]]

\* two objects at primes of `primes`, each constructed on a list of its own:
\* objs[1] of at most MaxObjLen blocks, objs[2] of at most maxother blocks;
\* p_adic_symbol returns at least one block
InitObjects(primes, maxother) ==
    /\ \E p1 \in primes, p2 \in primes :
         \E k1 \in 1 .. MaxObjLen, k2 \in 1 .. maxother :
           \E g1 \in [1 .. k1 - 1 -> ObjGaps], g2 \in [1 .. k2 - 1 -> ObjGaps] :
             \E b1 \in [1 .. k1 -> BlocksAt(p1)], b2 \in [1 .. k2 -> BlocksAt(p2)] :
               /\ heap = ObjSymbol(g1, b1) \o ObjSymbol(g2, b2)
               /\ objs = <<Genus_Symbol_p_adic_ring(p1, [j \in 1 .. k1 |-> j]),
                           Genus_Symbol_p_adic_ring(p2, [j \in 1 .. k2 |-> k1 + j])>>
    /\ sym = <<>>
    /\ arg = <<>>
    /\ before = <<>>
    /\ op = "none"
    /\ raised = FALSE
    /\ retIdx = <<>>
    /\ retSym = <<>>
    /\ red = NoRed
    /\ genus = <<>>
    /\ ret = None
    /\ representative = <<>>

\* the state a method call leaves: `arg` is <<self>> or <<self, other>>, `before`
\* the contents of self._symbol when the call started
Called(name, who, r) ==
    \E res \in {r} :
    /\ heap' = res.heap
    /\ objs' = res.objs
    /\ arg' = who
    /\ before' = Vals(heap, objs[who[1]]._symbol)
    /\ op' = name
    /\ raised' = res.raised
    /\ ret' = res.value
    /\ UNCHANGED <<sym, retIdx, retSym, red, genus, representative>>

\* objs[1].canonical_symbol()
CanonicalSymbol == Called("canonical_symbol", <<1>>, canonical_symbol(heap, objs, 1))

\* the comparisons made: objs[1] with objs[2], either way round, and with itself
Compared == {<<1, 2>>, <<2, 1>>, <<1, 1>>}

\* objs[i] == objs[j]
Eq == \E c \in Compared : Called("eq", c, eq(heap, objs, c[1], c[2]))

\* objs[i] != objs[j]
Ne == \E c \in Compared : Called("ne", c, ne(heap, objs, c[1], c[2]))

\* repr(objs[1])
Repr == Called("repr", <<1>>, repr(heap, objs, 1))

\* objs[1].trains()
TrainsOf == Called("trains", <<1>>, trains(heap, objs, 1))

\* objs[1].compartments()
CompartmentsOf == Called("compartments", <<1>>, compartments(heap, objs, 1))

\* objs[1].excess()
Excess == Called("excess", <<1>>, excess(heap, objs, 1))

\* objs[1].gram_matrix()
GramMatrix ==
    /\ objs # <<>>
    /\ Called("gram_matrix", <<1>>, gram_matrix(heap, objs, 1))

NextObject ==
    \/ CanonicalSymbol
    \/ Eq
    \/ Ne
    \/ Repr
    \/ TrainsOf
    \/ CompartmentsOf
    \/ Excess
    \/ GramMatrix

\* any sequence of calls on an object at 2 or 3, compared now and then with an
\* object of one block
InitObject == InitObjects({2, 3}, 1)

SpecObject == InitObject /\ [][NextObject]_vars

\* one comparison of two objects at 2, 3 or 5
InitPair == InitObjects({2, 3, 5}, MaxObjLen)

EqOnce == op = "none" /\ Eq

NeOnce == op = "none" /\ Ne

NextPair ==
    \/ EqOnce
    \/ NeOnce

SpecPair == InitPair /\ [][NextPair]_vars

(***************************************************************************)
(* Properties of the local symbol objects.                                 *)
(***************************************************************************)
Self == objs[arg[1]]

\* the list canonical_2_adic_reduction gives on the records `symbol`
Canonical(symbol) == reduction_value(symbol).work

\* what canonical_symbol() of objs[i] is, as a list of records
CanonicalOf(h, os, i) ==
    IF os[i]._prime = 2
    THEN Canonical(Vals(h, os[i]._symbol))
    ELSE Vals(h, os[i]._symbol)

\* the number of places of the string str that hold the character c
Count(str, c) == Cardinality({k \in 1 .. Len(str) : SubSeq(str, k, k) = c})

\* the digits that follow the underscores of str, in order
RECURSIVE OddityLabels(_, _)
OddityLabels(str, k) ==
    IF k >= Len(str) THEN <<>>
    ELSE IF SubSeq(str, k, k) = "_"
         THEN <<CHOOSE o \in 0 .. 9 : ToString(o) = SubSeq(str, k + 1, k + 1)>>
                \o OddityLabels(str, k + 1)
         ELSE OddityLabels(str, k + 1)

\* C19: in the printed form of a 2-adic symbol there is one bracket pair per
\* compartment, the label after the k-th closing bracket is the oddity the
\* canonical symbol holds on the first block of the k-th compartment, and the
\* trains are separated by colons (one colon in the heading, one between trains)
C19_BracketCarriesOwnOddity ==
    (op = "repr" /\ ~raised /\ Self._prime = 2) =>
        LET CS    == Vals(heap, Self._canonical_symbol[1])
            comps == canonical_2_adic_compartments(before).value
            trs   == trains_value(before).value
        IN  /\ Count(ret, "[") = Len(comps)
            /\ Count(ret, "]") = Len(comps)
            /\ Count(ret, ":") = Len(trs)
            /\ OddityLabels(ret, 1) =
                 [c \in 1 .. Len(comps) |-> Oddity(Item(CS, Item(comps[c], 0)))]

Cache(o) == o._canonical_symbol

\* C11: whatever call is made on whichever object, every object keeps its
\* _symbol (the same list with the same contents); the cache of a 2-adic object
\* is None or holds the list canonical_2_adic_reduction gives on _symbol; a call
\* of canonical_symbol on a 2-adic object leaves the cache filled and returns
\* the cached list, the one already cached if there was one; at an odd prime it
\* returns _symbol
C11_CacheAndSymbol ==
    [][\A i \in 1 .. Len(objs) :
         /\ objs'[i]._prime = objs[i]._prime
         /\ objs'[i]._symbol = objs[i]._symbol
         /\ Vals(heap', objs'[i]._symbol) = Vals(heap, objs[i]._symbol)
         /\ objs'[i]._prime = 2 =>
              \/ Cache(objs'[i]) = None
              \/ /\ ~reduction_value(Vals(heap', objs'[i]._symbol)).raised
                 /\ Vals(heap', Cache(objs'[i])[1])
                      = Canonical(Vals(heap', objs'[i]._symbol))
         /\ (op' = "canonical_symbol" /\ arg' = <<i>>) =>
              /\ ~raised'
              /\ objs[i]._prime = 2 =>
                   /\ Cache(objs'[i]) # None
                   /\ ret' = Cache(objs'[i])[1]
                   /\ Cache(objs[i]) # None => Cache(objs'[i]) = Cache(objs[i])
              /\ objs[i]._prime # 2 => ret' = objs[i]._symbol
      ]_vars

\* canonical_symbol is called on a 2-adic object whose cache an earlier call
\* filled (before the other object's was), and the cached list, which differs
\* from _symbol, is returned
C11_Witness ==
    /\ op = "canonical_symbol"
    /\ arg = <<1>>
    /\ objs[1]._prime = 2
    /\ objs[2]._prime = 2
    /\ Cache(objs[1]) # None
    /\ Cache(objs[2]) # None
    /\ Cache(objs[1])[1][1] < Cache(objs[2])[1][1]
    /\ ret = Cache(objs[1])[1]
    /\ Vals(heap, ret) # Vals(heap, objs[1]._symbol)

(***************************************************************************)
(* GenusSymbol_global_ring and is_GlobalGenus (genus.py 116-137,           *)
(* 1761-1769, 1837-1864).  A global symbol holds its signature pair and    *)
(* the list of its local symbols (places of objs), in the order of primes. *)
(***************************************************************************)
\* Genus_Symbol_p_adic_ring.determinant (1381-1382)
determinant(p, symbol) ==
    prod([j \in 1 .. Len(symbol) |-> p ^ (Item(symbol[j], 0) * Item(symbol[j], 1))])

\* GenusSymbol_global_ring.determinant (1863-1864)
global_determinant(h, os, G) ==
    ((-1) ^ G._signature[2])
      * prod([k \in 1 .. Len(G._local_symbols) |->
                determinant(os[G._local_symbols[k]]._prime,
                            Vals(h, os[G._local_symbols[k]]._symbol))])

\* faulty variant: the excess at 2 is added like the others
oddity_step_add(p, oddity, e) == oddity + e

\* lines 129 and 133: the excess at 2 is subtracted, the others are added
oddity_step(p, oddity, e) == IF p = 2 THEN oddity - e ELSE oddity + e

\* the loop of lines 119-134 from the k-th local symbol on, and lines 135-137.
\* v reads fields 0 and 1 of every record of the symbol and b field 2, before
\* any test; once these are read, and is_2_adic_genus has returned at 2,
\* excess() finds every field it reads.
RECURSIVE is_GlobalGenus_loop(_, _, _, _, _, _)
is_GlobalGenus_loop(h, os, G, D, k, oddity) ==
    IF k > Len(G._local_symbols) THEN Return(oddity % 8 = 0)
    ELSE LET loc == os[G._local_symbols[k]]
             p   == loc._prime
             sm  == Vals(h, loc._symbol)
         IN  IF \E j \in 1 .. Len(sm) : ~Has(sm[j], 2) THEN Raise
             ELSE LET v == sum([j \in 1 .. Len(sm) |-> Item(sm[j], 0) * Item(sm[j], 1)])
                      a == D \div (p ^ v)
                      b == prod([j \in 1 .. Len(sm) |-> Item(sm[j], 2)])
                      next == is_GlobalGenus_loop(h, os, G, D, k + 1,
                                                  oddity_step(p, oddity, excess_value(p, sm)))
                  IN  IF p = 2
                      THEN IF is_2_adic_genus(sm).raised THEN Raise
                           ELSE IF ~is_2_adic_genus(sm).value THEN Return(FALSE)
                           ELSE IF kronecker(a * b, p) # 1 THEN Return(FALSE)
                           ELSE next
                      ELSE IF kronecker(a, p) # b THEN Return(FALSE)
                           ELSE next

\* is_GlobalGenus (116-137); G.determinant() reads fields 0 and 1 of every
\* record of every local symbol
is_GlobalGenus(h, os, G) ==
    IF \E k \in 1 .. Len(G._local_symbols) :
         \E j \in 1 .. Len(os[G._local_symbols[k]]._symbol) :
           ~Has(h[os[G._local_symbols[k]]._symbol[j]], 1)
    THEN Raise
    ELSE is_GlobalGenus_loop(h, os, G, global_determinant(h, os, G), 1,
                             G._signature[1] - G._signature[2])

\* the loop of lines 1766-1768 from place i on, and line 1769
RECURSIVE global_eq_loop(_, _, _, _, _)
global_eq_loop(h, os, la, lb, i) ==
    IF i > Len(la) THEN Outcome(h, os, FALSE, TRUE)
    ELSE Only({IF n.raised THEN n
               ELSE IF n.value THEN Outcome(n.heap, n.objs, FALSE, FALSE)
               ELSE global_eq_loop(n.heap, n.objs, la, lb, i + 1) :
               n \in {ne(h, os, la[i], lb[i])}})

\* GenusSymbol_global_ring.__eq__ (1761-1769), self = gs[i], other = gs[j]
global_eq(h, os, gs, i, j) ==
    IF i = j THEN Outcome(h, os, FALSE, TRUE)
    ELSE IF Len(gs[i]._local_symbols) # Len(gs[j]._local_symbols)
    THEN Outcome(h, os, FALSE, FALSE)
    ELSE global_eq_loop(h, os, gs[i]._local_symbols, gs[j]._local_symbols, 1)

\* GenusSymbol_global_ring.__ne__ (1803): not self == other
global_ne(h, os, gs, i, j) ==
    Only({IF e.raised THEN e ELSE [e EXCEPT !.value = ~e.value] :
          e \in {global_eq(h, os, gs, i, j)}})

(***************************************************************************)
(* Two global symbols: genus[1], on which is_GlobalGenus is called, and    *)
(* genus[2], with which it is compared.                                    *)
(***************************************************************************)
MaxGenusLen == 2   \* blocks of the 2-adic symbol of genus[1]

\* [n, d, s, o] of the 2-adic blocks: the hyperbolic plane, the forms x^2 and
\* 3x^2, and a block no form has
GenusBlocks == {<<2, 7, 0, 0>>, <<1, 1, 1, 1>>, <<1, 3, 1, 3>>, <<1, 1, 1, 3>>}

\* the symbols at 3: of one block of rank 1, and one whose record has lost its
\* sign (records are lists, which a caller can change: genus.py 110-114)
OddSymbols ==
    {<<<<f, 1, e>>>> : f \in {0, 1}, e \in {1, -1}} \cup {<<<<0, 1>>>>}

Signatures == {<<1, 0>>, <<0, 1>>, <<2, 0>>, <<1, 1>>}

\* genus[1] has a 2-adic symbol and perhaps a symbol at 3; genus[2] is a copy
\* of it on lists of its own ("copy"), or has the 2-adic symbol of x^2 and the
\* same symbol at 3 ("unit"), or has the 2-adic symbol of x^2 alone ("two")
InitGenus ==
    /\ \E first \in {0, 1}, k \in 1 .. MaxGenusLen, sig \in Signatures,
          odd \in OddSymbols \cup {<<>>}, other \in {"copy", "unit", "two"} :
         \E b \in [1 .. k -> GenusBlocks] :
           LET s2 == [j \in 1 .. k |-> <<first + j - 1>> \o b[j]]
               o2 == IF other = "copy" THEN s2 ELSE <<<<0, 1, 1, 1, 1>>>>
               o3 == IF other = "two" THEN <<>> ELSE odd
               at == [x \in 1 .. 4 |->
                        Len(IF x > 1 THEN s2 ELSE <<>>) + Len(IF x > 2 THEN odd ELSE <<>>)
                          + Len(IF x > 3 THEN o2 ELSE <<>>)]
               mine == <<Genus_Symbol_p_adic_ring(2, ListAt(at[1], Len(s2)))>>
                         \o IF odd = <<>> THEN <<>>
                            ELSE <<Genus_Symbol_p_adic_ring(3, ListAt(at[2], Len(odd)))>>
               its  == <<Genus_Symbol_p_adic_ring(2, ListAt(at[3], Len(o2)))>>
                         \o IF o3 = <<>> THEN <<>>
                            ELSE <<Genus_Symbol_p_adic_ring(3, ListAt(at[4], Len(o3)))>>
           IN  /\ heap = s2 \o odd \o o2 \o o3
               /\ objs = mine \o its
               /\ genus = <<[_signature |-> sig, _local_symbols |-> ListAt(0, Len(mine))],
                            [_signature |-> sig,
                             _local_symbols |-> ListAt(Len(mine), Len(its))]>>
    /\ sym = <<>>
    /\ arg = <<>>
    /\ before = <<>>
    /\ op = "none"
    /\ raised = FALSE
    /\ retIdx = <<>>
    /\ retSym = <<>>
    /\ red = NoRed
    /\ ret = None
    /\ representative = <<>>

\* is_GlobalGenus(genus[1])
IsGlobalGenus ==
    /\ genus # <<>>
    /\ \E res \in {is_GlobalGenus(heap, objs, genus[1])} :
         /\ arg' = <<1>>
         /\ before' = IF objs = <<>> THEN <<>> ELSE Vals(heap, objs[1]._symbol)
         /\ op' = "is_GlobalGenus"
         /\ raised' = res.raised
         /\ ret' = IF res.raised THEN None ELSE res.value
    /\ UNCHANGED <<heap, sym, retIdx, retSym, red, objs, genus, representative>>

GlobalCalled(name, who, r) ==
    /\ op \in {"none", "is_GlobalGenus"}
    /\ \E res \in {r} :
         /\ heap' = res.heap
         /\ objs' = res.objs
         /\ arg' = who
         /\ before' = Vals(heap, objs[1]._symbol)
         /\ op' = name
         /\ raised' = res.raised
         /\ ret' = res.value
    /\ UNCHANGED <<sym, retIdx, retSym, red, genus, representative>>

\* genus[i] == genus[j]
GlobalEq == \E c \in Compared : GlobalCalled("global_eq", c, global_eq(heap, objs, genus, c[1], c[2]))

\* genus[i] != genus[j]
GlobalNe == \E c \in Compared : GlobalCalled("global_ne", c, global_ne(heap, objs, genus, c[1], c[2]))

NextGenus ==
    \/ IsGlobalGenus
    \/ GlobalEq
    \/ GlobalNe

SpecGenus == InitGenus /\ [][NextGenus]_vars

(***************************************************************************)
(* Properties of the global symbols.                                       *)
(***************************************************************************)
\* C12: no call changes a global symbol: its signature, its list of local
\* symbols, and the list and the records each local symbol was built on stay
\* as they were, so that is_GlobalGenus(genus[1]) gives after a comparison
\* what it gave before it; is_GlobalGenus itself changes neither the records
\* nor the objects
C12_ComparisonKeepsGenus ==
    [][/\ genus' = genus
       /\ \A i \in 1 .. Len(objs) :
            /\ objs'[i]._prime = objs[i]._prime
            /\ objs'[i]._symbol = objs[i]._symbol
            /\ Vals(heap', objs'[i]._symbol) = Vals(heap, objs[i]._symbol)
       /\ is_GlobalGenus(heap', objs', genus'[1]) = is_GlobalGenus(heap, objs, genus[1])
       /\ op' = "is_GlobalGenus" => (heap' = heap /\ objs' = objs)
      ]_vars

\* is_GlobalGenus returns True on a symbol that a comparison has canonicalized,
\* the canonical 2-adic symbol being another list with other contents
C12_Witness ==
    /\ op = "is_GlobalGenus"
    /\ ~raised
    /\ ret = TRUE
    /\ Cache(objs[1]) # None
    /\ Cache(objs[1])[1] # objs[1]._symbol
    /\ Vals(heap, Cache(objs[1])[1]) # Vals(heap, objs[1]._symbol)

\* C13: on a symbol whose records are whole (five fields at 2, three at 3),
\* is_GlobalGenus returns True exactly when every local symbol passes its test
\* (at 2: is_2_adic_genus and kronecker(a*b, 2) = 1; at odd p: kronecker(a, p) = b,
\* where v = sum of m*n, a = D / p^v, b = product of the d) and
\* r - s - excess at 2 + excesses at the odd primes is 0 mod 8; and it returns
\* False as soon as a local symbol fails, whatever follows it
C13_TrueIffLocalConditions ==
    (op = "is_GlobalGenus") =>
        LET G      == genus[1]
            D      == global_determinant(heap, objs, G)
            n      == Len(G._local_symbols)
            p(k)   == objs[G._local_symbols[k]]._prime
            sm(k)  == Vals(heap, objs[G._local_symbols[k]]._symbol)
            whole(k) == \A j \in 1 .. Len(sm(k)) :
                          Len(sm(k)[j]) = IF p(k) = 2 THEN 5 ELSE 3
            v(k)   == sum([j \in 1 .. Len(sm(k)) |-> sm(k)[j][1] * sm(k)[j][2]])
            a(k)   == D \div (p(k) ^ v(k))
            b(k)   == prod([j \in 1 .. Len(sm(k)) |-> sm(k)[j][3]])
            passes(k) == IF p(k) = 2
                         THEN is_2_adic_genus(sm(k)).value /\ kronecker(a(k) * b(k), 2) = 1
                         ELSE kronecker(a(k), p(k)) = b(k)
            total  == G._signature[1] - G._signature[2]
                        + sum([k \in 1 .. n |->
                                 IF p(k) = 2 THEN 0 - excess_value(2, sm(k))
                                 ELSE excess_value(p(k), sm(k))])
        IN  /\ (\A k \in 1 .. n : whole(k)) =>
                 /\ ~raised
                 /\ D = a(1) * p(1) ^ v(1)
                 /\ ret = ((\A k \in 1 .. n : passes(k)) /\ total % 8 = 0)
            /\ (\E k \in 1 .. n : (\A j \in 1 .. k : whole(j)) /\ ~passes(k)) =>
                 (~raised /\ ret = FALSE)

\* True is returned on a symbol with local symbols at 2 and at 3
C13_Witness ==
    /\ op = "is_GlobalGenus"
    /\ Len(genus[1]._local_symbols) = 2
    /\ ~raised
    /\ ret = TRUE

\* False is returned although the record of the symbol at 3 has no sign
C13_WitnessImmediately ==
    /\ op = "is_GlobalGenus"
    /\ Len(genus[1]._local_symbols) = 2
    /\ Len(heap[objs[2]._symbol[1]]) = 2
    /\ ~raised
    /\ ret = FALSE

(***************************************************************************)
(* GenusSymbol_global_ring.__init__ (1645-1656) and the genus of a matrix. *)
(***************************************************************************)
\* signature_pair_of_matrix (548-556) of a symmetric matrix of at most three
\* rows: the numbers of positive and of negative eigenvalues.  The
\* eigenvalues are real, so the positive ones are as many as the changes of
\* sign in the coefficients 1, -e1, e2, -e3 of the characteristic polynomial.
signature_pair_of_matrix(A) ==
    LET n  == Len(A)
        e1 == sum([i \in 1 .. n |-> A[i][i]])
        e2 == sum([x \in 1 .. n * n |->
                     LET i == (x - 1) \div n + 1
                         j == ((x - 1) % n) + 1
                     IN  IF i < j THEN A[i][i] * A[j][j] - A[i][j] * A[j][i] ELSE 0])
        c  == SubSeq(<<1, 0 - e1, e2, 0 - det(A)>>, 1, n + 1)
        nz == SelectSeq(c, LAMBDA x : x # 0)
        pos == Cardinality({k \in 1 .. Len(nz) - 1 : nz[k] * nz[k + 1] < 0})
    IN  IF det(A) = 0 THEN Raise ELSE Return(<<pos, n - pos>>)

\* faulty variant: the primes are those of the determinant
doubled_determinant_single(A) == det(A)

\* lines 1645-1646: D = 2 * A.determinant()
doubled_determinant(A) == 2 * det(A)

\* [p[0] for p in D.factor()]: the primes that divide D, in increasing order
prime_divisors(D) ==
    LET a  == IF D < 0 THEN 0 - D ELSE D
        ps == {p \in 2 .. a : D % p = 0 /\ \A q \in 2 .. p - 1 : p % q # 0}
    IN  [k \in 1 .. Cardinality(ps) |->
           CHOOSE p \in ps : Cardinality({x \in ps : x < p}) = k - 1]

\* GenusSymbol_global_ring(A), max_elem_divisors = None (1645-1656): the new
\* local symbols are put after os and their records after h
GenusSymbol_global_ring(h, os, A) ==
    LET D    == doubled_determinant(A)
        prms == prime_divisors(D)
    IN  Only({IF sig.raised \/ \E k \in 1 .. Len(syms) : syms[k].raised
              THEN Outcome(h, os, TRUE, None)
              ELSE LET at(k) == Len(h) + sum([j \in 1 .. k - 1 |-> Len(syms[j].value)])
                       recs[k \in 0 .. Len(syms)] ==
                           IF k = 0 THEN <<>> ELSE recs[k - 1] \o syms[k].value
                   IN  Outcome(h \o recs[Len(syms)],
                               os \o [k \in 1 .. Len(syms) |->
                                        Genus_Symbol_p_adic_ring(
                                            prms[k], ListAt(at(k), Len(syms[k].value)))],
                               FALSE,
                               [_representative |-> A,
                                _signature |-> sig.value,
                                _local_symbols |-> ListAt(Len(os), Len(syms))]) :
              sig \in {signature_pair_of_matrix(A)},
              syms \in {[k \in 1 .. Len(prms) |->
                           p_adic_symbol(A, prms[k], valuation(D, prms[k]))] \o <<>>}})

(***************************************************************************)
(* The genus of a matrix: the matrix is given, its local symbols are       *)
(* computed, and the calls are made on the symbol constructed from it.     *)
(***************************************************************************)
MaxEntry == 2   \* the entries of the matrices of one and two rows are -MaxEntry .. MaxEntry

\* the entries of the matrices of three rows
UnitEntries == {-1, 0, 1}

\* the symmetric matrices of n rows with entries in S and determinant not 0
SymmetricMatrices(n, S) ==
    {A \in [1 .. n -> [1 .. n -> S]] :
       /\ \A i \in 1 .. n, j \in 1 .. n : A[i][j] = A[j][i]
       /\ det(A) # 0}

InitMatrix ==
    /\ representative \in SymmetricMatrices(1, (0 - MaxEntry) .. MaxEntry)
                             \cup SymmetricMatrices(2, (0 - MaxEntry) .. MaxEntry)
                             \cup SymmetricMatrices(3, UnitEntries)
    /\ heap = <<>>
    /\ sym = <<>>
    /\ arg = <<>>
    /\ before = <<>>
    /\ op = "none"
    /\ raised = FALSE
    /\ retIdx = <<>>
    /\ retSym = <<>>
    /\ red = NoRed
    /\ objs = <<>>
    /\ genus = <<>>
    /\ ret = None

\* p_adic_symbol(A, p, val) for a prime p of 2*det(A) and val its valuation
PAdicSymbol ==
    /\ op = "none"
    /\ \E k \in 1 .. Len(prime_divisors(doubled_determinant(representative))) :
         \E p \in {prime_divisors(doubled_determinant(representative))[k]} :
           \E res \in {p_adic_symbol(representative, p,
                                     valuation(doubled_determinant(representative), p))} :
             /\ arg' = <<p>>
             /\ op' = "p_adic_symbol"
             /\ raised' = res.raised
             /\ ret' = IF res.raised THEN None ELSE res.value
    /\ UNCHANGED <<heap, sym, before, retIdx, retSym, red, objs, genus, representative>>

\* G = Genus(A) (23-46)
NewGenus ==
    /\ op = "none"
    /\ \E res \in {GenusSymbol_global_ring(heap, objs, representative)} :
         /\ heap' = res.heap
         /\ objs' = res.objs
         /\ genus' = IF res.raised THEN genus ELSE <<res.value>>
         /\ raised' = res.raised
         /\ ret' = None
    /\ arg' = <<>>
    /\ op' = "Genus"
    /\ UNCHANGED <<sym, before, retIdx, retSym, red, representative>>

\* GenusSymbol_global_ring(A, max_elem_divisors) (1645-1656).  val is assigned
\* at line 1653 only when max_elem_divisors is None; otherwise line 1654 reads
\* the local name val, which nothing has bound, at the first prime of 2*det(A):
\* UnboundLocalError.  Lines 1645-1650 have run by then.  max_elem_divisors is
\* None or <<k>>.
GenusSymbol_global_ring_with(h, os, A, max_elem_divisors) ==
    IF max_elem_divisors = None
    THEN GenusSymbol_global_ring(h, os, A)
    ELSE IF signature_pair_of_matrix(A).raised
              \/ prime_divisors(doubled_determinant(A)) = <<>>
    THEN GenusSymbol_global_ring(h, os, A)
    ELSE Outcome(h, os, TRUE, None)

MaxPrecision == 3   \* the precisions given are 0 .. MaxPrecision

\* G = GenusSymbol_global_ring(A, max_elem_divisors=k)
NewGenusWith ==
    /\ op = "none"
    /\ \E k \in 0 .. MaxPrecision :
         \E res \in {GenusSymbol_global_ring_with(heap, objs, representative, <<k>>)} :
           /\ heap' = res.heap
           /\ objs' = res.objs
           /\ genus' = IF res.raised THEN genus ELSE <<res.value>>
           /\ raised' = res.raised
           /\ ret' = None
           /\ arg' = <<k>>
    /\ op' = "GenusSymbol_global_ring"
    /\ UNCHANGED <<sym, before, retIdx, retSym, red, representative>>

\* objs[i].gram_matrix() for a local symbol at an odd prime
GramMatrixOdd ==
    \E i \in 2 .. Len(objs) : Called("gram_matrix", <<i>>, gram_matrix(heap, objs, i))

NextMatrix ==
    \/ PAdicSymbol
    \/ NewGenus
    \/ IsGlobalGenus
    \/ GramMatrix
    \/ GramMatrixOdd
    \/ NewGenusWith

SpecMatrix == InitMatrix /\ [][NextMatrix]_vars

\* C17: p_adic_symbol(A, p, val), for a symmetric matrix A of determinant not 0,
\* a prime p of 2*det(A) and val the valuation of 2*det(A) at p, returns
\* blocks whose scales increase strictly and whose ranks, each at least 1 (so
\* that every recursive call is on a matrix of fewer rows), add up to the
\* number of rows of A
C17_ScalesIncreaseRanksSumToN ==
    op = "p_adic_symbol" =>
        /\ ~raised
        /\ \A k \in 1 .. Len(ret) - 1 : ret[k][1] < ret[k + 1][1]
        /\ \A k \in 1 .. Len(ret) : ret[k][2] >= 1
        /\ sum([k \in 1 .. Len(ret) |-> ret[k][2]]) = Len(representative)

\* all entries of the matrix are divisible by p and two blocks are returned,
\* the second by the recursive call
C17_Witness ==
    /\ op = "p_adic_symbol"
    /\ ~raised
    /\ Len(ret) >= 2
    /\ ret[1][1] >= 1

\* C18: gram_matrix() of a local symbol that p_adic_symbol produced does not
\* raise (the assertion of check=True holds) and returns a matrix that is block
\* diagonal, one block of `rank` rows for each block of the symbol, and whose
\* own symbol at the same prime has the canonical form of the original
C18_GramMatrixGivesBackTheSymbol ==
    op = "gram_matrix" =>
        /\ ~raised
        /\ LET symbol == Vals(heap, Self._symbol)
               upto(k) == sum([j \in 1 .. k |-> symbol[j][2]])
               blockOf(i) == CHOOSE k \in 1 .. Len(symbol) : upto(k - 1) < i /\ i <= upto(k)
               symG == p_adic_symbol(ret, Self._prime, symbol[Len(symbol)][1])
           IN  /\ Len(ret) = upto(Len(symbol))
               /\ \A i \in 1 .. Len(ret), j \in 1 .. Len(ret) :
                    blockOf(i) # blockOf(j) => ret[i][j] = 0
               /\ ~symG.raised
               /\ IF Self._prime = 2
                  THEN /\ ~reduction_value(symG.value).raised
                       /\ Canonical(symG.value) = Canonical(symbol)
                  ELSE symG.value = symbol

\* gram_matrix() has been called on a 2-adic symbol of two blocks that is not
\* in canonical form, and the matrix returned is not the matrix the symbol was
\* taken from
C18_Witness ==
    /\ op = "gram_matrix"
    /\ ~raised
    /\ Self._prime = 2
    /\ Len(Vals(heap, Self._symbol)) = 2
    /\ Canonical(Vals(heap, Self._symbol)) # Vals(heap, Self._symbol)
    /\ ret # representative

\* C14: for a symmetric integer matrix A of determinant not 0, Genus(A) is
\* constructed without an exception and is_GlobalGenus of it returns True
C14_GenusOfMatrixIsGlobal ==
    /\ op = "Genus" => ~raised /\ Len(genus) = 1
    /\ op = "is_GlobalGenus" => ~raised /\ ret = TRUE

\* is_GlobalGenus returned True on the genus of an indefinite matrix of three
\* rows that has a local symbol at 2 and one at an odd prime
C14_Witness ==
    /\ op = "is_GlobalGenus"
    /\ ~raised
    /\ ret = TRUE
    /\ Len(representative) = 3
    /\ genus[1]._signature[1] >= 1
    /\ genus[1]._signature[2] >= 1
    /\ Len(genus[1]._local_symbols) >= 2

\* C21: GenusSymbol_global_ring(A, max_elem_divisors=k) with k given constructs
\* the symbol without an exception, and the local symbol at each prime p of
\* 2*det(A) is p_adic_symbol(A, p, k)
C21_ConstructsWithGivenPrecision ==
    op = "GenusSymbol_global_ring" =>
        /\ ~raised
        /\ Len(genus) = 1
        /\ LET prms == prime_divisors(doubled_determinant(representative))
               locs == genus[1]._local_symbols
           IN  /\ Len(locs) = Len(prms)
               /\ \A j \in 1 .. Len(prms) :
                    /\ objs[locs[j]]._prime = prms[j]
                    /\ Vals(heap, objs[locs[j]]._symbol)
                         = p_adic_symbol(representative, prms[j], arg[1]).value

(***************************************************************************)
(* Monoids (categories/monoids.py): prod, _test_prod, __pow__, _pow_naive   *)
(* and powers, on the elements of two monoids: the words on a and b under  *)
(* concatenation (Monoids().example()) and the 2 x 2 integer matrices.     *)
(* An element is [parent, value].                                          *)
(***************************************************************************)
\* P.one()
one(P) ==
    [parent |-> P,
     value  |-> IF P = "FreeMonoid" THEN "" ELSE <<<<1, 0>>, <<0, 1>>>>]

\* x * y
times(x, y) ==
    [parent |-> x.parent,
     value  |-> IF x.parent = "FreeMonoid" THEN x.value \o y.value
                ELSE mul(x.value, y.value)]

\* sage.misc.misc_c.prod(x, z): z when x is empty, else z * (the balanced
\* product of x: runs of at most 5 factors are multiplied left to right,
\* longer ones are split in two halves)
misc_prod(x, z) ==
    LET recursion_cutoff == 5
        RECURSIVE balanced_list_prod(_, _)
        balanced_list_prod(offset, count) ==
            IF count <= recursion_cutoff
            THEN LET run[k \in 1 .. count] ==
                         IF k = 1 THEN x[offset + 1]
                         ELSE times(run[k - 1], x[offset + k])
                 IN  run[count]
            ELSE LET k == (1 + count) \div 2
                 IN  times(balanced_list_prod(offset, k),
                           balanced_list_prod(offset + k, count - k))
    IN  IF Len(x) = 0 THEN z ELSE times(z, balanced_list_prod(0, Len(x)))

\* faulty variant: the product is started from the first argument
Monoids_prod_from_first(P, args) ==
    IF Len(args) = 0 THEN one(P) ELSE misc_prod(args, args[1])

\* ParentMethods.prod (150-167)
Monoids_prod(P, args) == misc_prod(args, one(P))

\* sage.structure.element.generic_power(a, n, one) for n >= 0: squaring and
\* multiplying along the binary digits of n
generic_power(a, n, e) ==
    LET RECURSIVE odd_part(_, _)
        odd_part(apow, m) ==
            IF m % 2 = 0 THEN odd_part(times(apow, apow), m \div 2) ELSE <<apow, m>>
        RECURSIVE digits(_, _, _)
        digits(apow, power, m) ==
            IF m = 0 THEN power
            ELSE digits(times(apow, apow),
                        IF m % 2 = 1 THEN times(power, times(apow, apow)) ELSE power,
                        m \div 2)
    IN  IF n = 0 THEN e
        ELSE Only({digits(s[1], s[1], s[2] \div 2) : s \in {odd_part(a, n)}})

\* ElementMethods.__pow__ (261-279)
__pow__(x, n) ==
    IF n = 0 THEN one(x.parent) ELSE generic_power(x, n, one(x.parent))

\* faulty variant: the loop runs n times
pow_naive_n_times(x, n) ==
    LET result[i \in 0 .. n] == IF i = 0 THEN x ELSE times(result[i - 1], x)
    IN  IF n = 0 THEN one(x.parent) ELSE result[n]

\* ElementMethods._pow_naive (281-305); range(n - 1) is empty for n <= 1
_pow_naive(x, n) ==
    LET result[i \in 0 .. n] == IF i = 0 THEN x ELSE times(result[i - 1], x)
    IN  IF n = 0 THEN one(x.parent) ELSE result[IF n >= 1 THEN n - 1 ELSE 0]

\* ElementMethods.powers (307-329)
powers(x, n) ==
    LET xs[i \in 0 .. n] == IF i = 0 THEN one(x.parent) ELSE times(xs[i - 1], x)
    IN  IF n < 0 THEN Raise
        ELSE IF n = 0 THEN Return(<<>>)
        ELSE Return([i \in 1 .. n |-> xs[i - 1]] \o <<>>)

\* ParentMethods._test_prod (193-198) with the elements tested: an assertion
\* that fails raises
_test_prod(P, elements) ==
    IF /\ Monoids_prod(P, <<>>) = one(P)
       /\ \A x \in elements :
            /\ Monoids_prod(P, <<x>>) = x
            /\ Monoids_prod(P, <<x, x>>) = __pow__(x, 2)
            /\ Monoids_prod(P, <<x, x, x>>) = __pow__(x, 3)
    THEN Return(None)
    ELSE Raise

MaxArgs == 6    \* the lists given to prod have at most MaxArgs elements
MaxPower == 6   \* the exponents are at most MaxPower

\* the elements taken of the monoid P
some_elements(P) ==
    IF P = "FreeMonoid"
    THEN {[parent |-> P, value |-> w] : w \in {"", "a", "b", "ab"}}
    ELSE {[parent |-> P, value |-> A] :
            A \in {<<<<1, 0>>, <<0, 1>>>>, <<<<1, 1>>, <<-1, 0>>>>,
                   <<<<0, 1>>, <<0, 0>>>>, <<<<1, 1>>, <<0, 1>>>>}}

\* arg[1] is the element (self) on which, or on whose parent, a method is called
InitMonoid ==
    /\ \E P \in {"FreeMonoid", "MatrixSpace"} : \E x \in some_elements(P) : arg = <<x>>
    /\ heap = <<>>
    /\ sym = <<>>
    /\ before = <<>>
    /\ op = "none"
    /\ raised = FALSE
    /\ retIdx = <<>>
    /\ retSym = <<>>
    /\ red = NoRed
    /\ objs = <<>>
    /\ genus = <<>>
    /\ ret = None
    /\ representative = <<>>

\* the state a call on arg[1] with the further argument x leaves
MonoidCalled(name, x, r) ==
    /\ op' = name
    /\ arg' = <<arg[1], x>>
    /\ raised' = r.raised
    /\ ret' = r.value
    /\ UNCHANGED <<heap, sym, before, retIdx, retSym, red, objs, genus, representative>>

\* arg[1].parent().prod(args)
Prod ==
    /\ op = "none"
    /\ \E k \in 0 .. MaxArgs :
         \E args \in [1 .. k -> some_elements(arg[1].parent)] :
           MonoidCalled("prod", args \o <<>>,
                        Return(Monoids_prod(arg[1].parent, args \o <<>>)))

\* arg[1].parent()._test_prod()
TestProd ==
    /\ op = "none"
    /\ MonoidCalled("_test_prod", None,
                    _test_prod(arg[1].parent, some_elements(arg[1].parent)))

\* arg[1] ** n
Pow ==
    /\ op = "none"
    /\ \E n \in 0 .. MaxPower : MonoidCalled("__pow__", n, Return(__pow__(arg[1], n)))

\* arg[1]._pow_naive(n)
PowNaive ==
    /\ op = "none"
    /\ \E n \in 0 .. MaxPower :
         MonoidCalled("_pow_naive", n, Return(_pow_naive(arg[1], n)))

\* arg[1].powers(n)
Powers ==
    /\ op = "none"
    /\ \E n \in -1 .. MaxPower : MonoidCalled("powers", n, powers(arg[1], n))

NextMonoid ==
    \/ Prod
    \/ TestProd
    \/ Pow
    \/ PowNaive
    \/ Powers

SpecMonoid == InitMonoid /\ [][NextMonoid]_vars

\* x_1 * ... * x_k multiplied one after the other from the left, starting from e
RECURSIVE LeftToRight(_, _)
LeftToRight(e, l) == IF l = <<>> THEN e ELSE LeftToRight(times(e, Head(l)), Tail(l))

\* C22: prod(args) is the product of args from left to right starting from
\* one(), so that prod([]) is one(), prod([x]) is x, and prod([x, x]) and
\* prod([x, x, x]) are x**2 and x**3; _test_prod, which asserts these, passes;
\* x**0 is one()
C22_ProdIsLeftToRightProduct ==
    /\ op = "prod" =>
         /\ ~raised
         /\ ret = LeftToRight(one(arg[1].parent), arg[2])
         /\ arg[2] = <<>> => ret = one(arg[1].parent)
         /\ \A x \in some_elements(arg[1].parent) :
              /\ arg[2] = <<x>> => ret = x
              /\ arg[2] = <<x, x>> => ret = __pow__(x, 2)
              /\ arg[2] = <<x, x, x>> => ret = __pow__(x, 3)
    /\ op = "_test_prod" => ~raised
    /\ (op = "__pow__" /\ arg[2] = 0) => ret = one(arg[1].parent)

\* prod was given six elements, not all the same, of which the product is not
\* the product in the reverse order
C22_Witness ==
    /\ op = "prod"
    /\ Len(arg[2]) = 6
    /\ arg[2][1] # arg[2][6]
    /\ ret # LeftToRight(one(arg[1].parent), [k \in 1 .. 6 |-> arg[2][7 - k]])

\* C23: powers(n) raises for n < 0, returns [] for n = 0 and a list of n
\* elements for n >= 1, the i-th (from 0) being x**i; _pow_naive(n) is x**n
C23_PowersAndNaivePower ==
    /\ op = "powers" =>
         /\ raised = (arg[2] < 0)
         /\ arg[2] = 0 => ret = <<>>
         /\ arg[2] >= 1 =>
              /\ Len(ret) = arg[2]
              /\ \A i \in 0 .. arg[2] - 1 : ret[i + 1] = __pow__(arg[1], i)
    /\ op = "_pow_naive" => (~raised /\ ret = __pow__(arg[1], arg[2]))

\* the fifth power of an element that is not one() is in the list powers gives,
\* and is not its fourth power
C23_Witness ==
    /\ op = "powers"
    /\ ~raised
    /\ Len(ret) >= 6
    /\ arg[1] # one(arg[1].parent)
    /\ ret[6] # ret[5]

(***************************************************************************)
(* AlternatingContrTensor.wedge (tensor/modules/alternating_contr_tensor.py *)
(* 568-589) on a free module of rank ModuleRank over the integers, with    *)
(* one basis.  A tensor is [_tensor_rank, _comp]; _comp is the dictionary  *)
(* of its components, held as the set of its items <<ind, val>>: the       *)
(* indices ind are strictly increasing and no val is 0.                    *)
(***************************************************************************)
\* the rank of the module M of the examples (line 519): the indices are
\* 0 .. ModuleRank - 1
ModuleRank == 3

\* CompFullyAntiSym._ordered_indices(ind) for distinct indices: the sign of
\* the permutation that sorts ind, and ind sorted
_ordered_indices(ind) ==
    LET inversions == Cardinality({c \in (1 .. Len(ind)) \X (1 .. Len(ind)) :
                                     c[1] < c[2] /\ ind[c[1]] > ind[c[2]]})
        place(k) == CHOOSE j \in 1 .. Len(ind) :
                        Cardinality({i \in 1 .. Len(ind) : ind[i] < ind[j]}) = k - 1
    IN  <<(-1) ^ inversions, [k \in 1 .. Len(ind) |-> ind[place(k)]] \o <<>>>>

\* cmp_r[[ind]] += val on fully antisymmetric components: the item read is
\* sign * (what is stored at the sorted indices, 0 if nothing is), the item
\* written is sign * (the new value), and an item that becomes 0 is deleted
antisym_add(comp, ind, val) ==
    LET so     == _ordered_indices(ind)
        stored == IF \E e \in comp : e[1] = so[2]
                  THEN (CHOOSE e \in comp : e[1] = so[2])[2] ELSE 0
        new    == so[1] * (so[1] * stored + val)
    IN  {e \in comp : e[1] # so[2]} \cup (IF new = 0 THEN {} ELSE {<<so[2], new>>})

\* faulty variant: the product is added whatever the order of the indices
wedge_term_unsigned(cmp_r, ind_r, val) ==
    IF Cardinality({ind_r[k] : k \in 1 .. Len(ind_r)}) = Len(ind_r)
    THEN antisym_add(cmp_r, _ordered_indices(ind_r)[2], val)
    ELSE cmp_r

\* lines 582-584: the body of the two loops
wedge_term(cmp_r, ind_r, val) ==
    IF Cardinality({ind_r[k] : k \in 1 .. Len(ind_r)}) = Len(ind_r)
    THEN antisym_add(cmp_r, ind_r, val)
    ELSE cmp_r

\* self.wedge(other) (568-589) for tensors of degree at least 1: the items of
\* the two dictionaries are paired in some order
wedge(self, other) ==
    LET RECURSIVE loops(_, _)
        loops(cmp_r, todo) ==
            IF todo = {} THEN cmp_r
            ELSE Only({loops(wedge_term(cmp_r, c[1][1] \o c[2][1], c[1][2] * c[2][2]),
                             todo \ {c}) :
                       c \in {CHOOSE c \in todo : TRUE}})
    IN  [_tensor_rank |-> self._tensor_rank + other._tensor_rank,
         _comp        |-> loops({}, self._comp \X other._comp)]

MaxCoeff == 1   \* the components given are -MaxCoeff .. MaxCoeff

\* the strictly increasing index tuples of length p
IncreasingIndices(p) ==
    {ind \in [1 .. p -> 0 .. ModuleRank - 1] : \A k \in 1 .. p - 1 : ind[k] < ind[k + 1]}

\* the alternating contravariant tensors of degree p with components in
\* -MaxCoeff .. MaxCoeff
AlternatingContrTensors(p) ==
    {[_tensor_rank |-> p,
      _comp |-> {<<ind \o <<>>, f[ind]>> : ind \in {i \in IncreasingIndices(p) : f[i] # 0}}] :
       f \in [IncreasingIndices(p) -> (0 - MaxCoeff) .. MaxCoeff]}

\* arg = <<a, b>>: two tensors of degrees p, q >= 1 with p + q <= ModuleRank
InitTensor ==
    /\ \E p \in 1 .. ModuleRank - 1 : \E q \in 1 .. ModuleRank - p :
         \E a \in AlternatingContrTensors(p) : \E b \in AlternatingContrTensors(q) :
           arg = <<a, b>>
    /\ heap = <<>>
    /\ sym = <<>>
    /\ before = <<>>
    /\ op = "none"
    /\ raised = FALSE
    /\ retIdx = <<>>
    /\ retSym = <<>>
    /\ red = NoRed
    /\ objs = <<>>
    /\ genus = <<>>
    /\ ret = None
    /\ representative = <<>>

\* arg[i].wedge(arg[j]); before = <<i, j>>
Wedge ==
    /\ op = "none"
    /\ \E i \in 1 .. 2, j \in 1 .. 2 :
         /\ arg[i]._tensor_rank + arg[j]._tensor_rank <= ModuleRank
         /\ before' = <<i, j>>
         /\ ret' = wedge(arg[i], arg[j])
    /\ op' = "wedge"
    /\ raised' = FALSE
    /\ UNCHANGED <<heap, sym, arg, retIdx, retSym, red, objs, genus, representative>>

NextTensor == Wedge

SpecTensor == InitTensor /\ [][NextTensor]_vars

\* the component of the tensor t at the indices ind, in any order: 0 when an
\* index is repeated
Component(t, ind) ==
    IF Cardinality({ind[k] : k \in 1 .. Len(ind)}) < Len(ind) THEN 0
    ELSE LET so == _ordered_indices(ind)
         IN  IF \E e \in t._comp : e[1] = so[2]
             THEN so[1] * (CHOOSE e \in t._comp : e[1] = so[2])[2] ELSE 0

\* C24: a.wedge(b) = (-1)^(p*q) b.wedge(a) for a, b of degrees p, q; b.wedge(b)
\* is 0 for a module element b; and for module elements a, b the component
\* i, j of a.wedge(b) is a_i*b_j - a_j*b_i
C24_WedgeIsGradedAnticommutative ==
    op = "wedge" =>
        LET a == arg[before[1]]
            b == arg[before[2]]
            p == a._tensor_rank
            q == b._tensor_rank
            swapped == wedge(b, a)
        IN  /\ ret._tensor_rank = p + q
            /\ \A e \in ret._comp :
                 /\ e[2] # 0
                 /\ \A k \in 1 .. Len(e[1]) - 1 : e[1][k] < e[1][k + 1]
            /\ \A ind \in IncreasingIndices(p + q) :
                 Component(ret, ind) = ((-1) ^ (p * q)) * Component(swapped, ind)
            /\ (p = 1 /\ before[1] = before[2]) => ret._comp = {}
            /\ (p = 1 /\ q = 1) =>
                 \A i \in 0 .. ModuleRank - 1, j \in 0 .. ModuleRank - 1 :
                   Component(ret, <<i, j>>)
                     = Component(a, <<i>>) * Component(b, <<j>>)
                         - Component(a, <<j>>) * Component(b, <<i>>)

\* two different module elements of which the exterior product is not 0
C24_Witness ==
    /\ op = "wedge"
    /\ before = <<1, 2>>
    /\ arg[1]._tensor_rank = 1
    /\ arg[2]._tensor_rank = 1
    /\ ret._comp # {}
    /\ ret # wedge(arg[2], arg[1])

\* the 2-adic oddity invariant of a symbol: (the sum of the oddities + 4 * the
\* number of blocks of odd scale whose d is in minus) mod 8
OddityInvariant(symbol, minus) ==
    (sum([j \in 1 .. Len(symbol) |-> Oddity(symbol[j])])
       + 4 * Cardinality({j \in 1 .. Len(symbol) :
                            Scale(symbol[j]) % 2 = 1 /\ Sign(symbol[j]) \in minus})) % 8

\* C28: the oddity invariant of the list canonical_2_adic_reduction returns
\* (class -1 is d = -1) is that of the list it was given (class -1 is d = 3 or 5,
\* or d = -1 when the list is itself a returned one)
C28_ReductionKeepsOddityInvariant ==
    ReductionDone => OddityInvariant(Out, {-1}) = OddityInvariant(before, {3, 5, -1})

\* the reduction took a walk and the symbol has a block of odd scale and class -1
C28_Witness ==
    /\ ReductionDone
    /\ Len(red.walks) > 0
    /\ \E j \in 1 .. Len(before) : Scale(before[j]) % 2 = 1 /\ Sign(before[j]) \in {3, 5}
    /\ \E j \in 1 .. Len(before) : Oddity(Out[j]) # Oddity(before[j])
    /\ OddityInvariant(Out, {-1}) = OddityInvariant(before, {3, 5, -1})

\* the sum of the oddities of the blocks of `symbol` at the indices of `compart`
OdditySum(symbol, compart) ==
    sum([k \in 1 .. Len(compart) |-> Oddity(Item(symbol, compart[k]))])

\* C25: in the list canonical_2_adic_reduction returns every member of a
\* compartment but its first has oddity 0, every even block has the oddity it had
\* in the list given, and when every block given has d in {1, 7} (no class -1)
\* the first member has the sum mod 8 of the oddities its compartment had
C25_OddityFusion ==
    ReductionDone =>
        LET c == canonical_2_adic_compartments(before).value IN
        /\ \A k \in 1 .. Len(c) :
             \A q \in 2 .. Len(c[k]) : Oddity(Item(Out, c[k][q])) = 0
        /\ \A j \in 1 .. Len(before) :
             Parity(before[j]) = 0 => Oddity(Out[j]) = Oddity(before[j])
        /\ (\A j \in 1 .. Len(before) : Sign(before[j]) \in {1, 7})
             => \A k \in 1 .. Len(c) :
                  Oddity(Item(Out, c[k][1])) = OdditySum(before, c[k]) % 8

\* a compartment of two members, both with a nonzero oddity, was fused in a
\* symbol without class -1
C25_Witness ==
    /\ op = "reduction"
    /\ ~raised
    /\ \A j \in 1 .. Len(before) : Sign(before[j]) \in {1, 7}
    /\ \E k \in 1 .. Len(red.compartments) :
         LET c == red.compartments[k] IN
         /\ Len(c) = 2
         /\ Oddity(Item(before, c[1])) # 0
         /\ Oddity(Item(before, c[2])) # 0
         /\ Oddity(Item(Out, c[2])) = 0
         /\ Oddity(Item(Out, c[1])) = OdditySum(before, c) % 8

\* C26: the list canonical_2_adic_reduction returns has as many blocks as the
\* list given, each with the scale, rank and parity flag of the block given at
\* its index, so the compartments and the trains of the list given, of the
\* list after the determinants are normalized, of the list after oddity fusion
\* and of the list returned are the same
C26_ShapeKept ==
    ReductionDone =>
        /\ Len(Out) = Len(before)
        /\ \A j \in 1 .. Len(before) :
             /\ Scale(Out[j]) = Scale(before[j])
             /\ Item(Out[j], 1) = Item(before[j], 1)
             /\ Parity(Out[j]) = Parity(before[j])
        /\ \A l \in {red.normalized, red.fused, Out} :
             /\ canonical_2_adic_compartments(l) = canonical_2_adic_compartments(before)
             /\ trains_value(l) = trains_value(before)
        /\ red.compartments = canonical_2_adic_compartments(before).value
        /\ red.trains = trains_value(before).value

\* every stage changed the list, which has a compartment and a train of two
C26_Witness ==
    /\ ReductionDone
    /\ red.normalized # before
    /\ red.fused # red.normalized
    /\ Out # red.fused
    /\ \E k \in 1 .. Len(red.compartments) : Len(red.compartments[k]) = 2
    /\ \E k \in 1 .. Len(red.trains) : Len(red.trains[k]) = 2
    /\ trains_value(Out).value = red.trains

\* the signs of the blocks of `symbol` at the indices of `train`
TrainSigns(symbol, train) == [k \in 1 .. Len(train) |-> Sign(Item(symbol, train[k]))]

OddScaleMinus(symbol, minus) ==
    Cardinality({j \in 1 .. Len(symbol) :
                   Scale(symbol[j]) % 2 = 1 /\ Sign(symbol[j]) \in minus})

\* C27: excess() returns a value in 0..7; on a 2-adic object it is (the sum of
\* the oddities + 4 * the number of blocks of odd scale with d in {3, 5}) mod 8
\* of _symbol, whatever the cache holds; at an odd prime p it is (the sum of
\* n * (p^m - 1) + 4 * the number of blocks of odd scale with d = -1) mod 8
C27_ExcessValue ==
    op = "excess" =>
        LET symbol == Vals(heap, Self._symbol)
            p      == Self._prime
        IN
        /\ ~raised
        /\ ret \in 0 .. 7
        /\ p = 2 =>
             ret = (sum([j \in 1 .. Len(symbol) |-> Oddity(symbol[j])])
                      + 4 * OddScaleMinus(symbol, {3, 5})) % 8
        /\ p # 2 =>
             ret = (sum([j \in 1 .. Len(symbol) |->
                           Item(symbol[j], 1) * (p ^ Scale(symbol[j]) - 1)])
                      + 4 * OddScaleMinus(symbol, {-1})) % 8

\* excess() of a 2-adic object whose cache is filled and whose _symbol has a
\* block of odd scale with d = 3, which the cached list holds as d = -1
C27_Witness ==
    /\ op = "excess"
    /\ ~raised
    /\ Self._prime = 2
    /\ Cache(Self) # None
    /\ OddScaleMinus(Vals(heap, Self._symbol), {3, 5}) = 1
    /\ OddScaleMinus(Vals(heap, Cache(Self)[1]), {3, 5}) = 0
    /\ ret \in 0 .. 7

\* excess() at an odd prime of a symbol with a block of odd scale and d = -1
C27_WitnessOdd ==
    /\ op = "excess"
    /\ ~raised
    /\ Self._prime # 2
    /\ OddScaleMinus(Vals(heap, Self._symbol), {-1}) = 1


(***************************************************************************)
(* _gram_from_jordan_block applied to single blocks                        *)
(***************************************************************************)
\* the greatest rank and the greatest scale of the blocks drawn
MaxRank == 5
MaxScale == 2

\* the primes of the blocks drawn
BlockPrimes == {2, 3, 5}

\* the blocks drawn at the prime p: every quintuple at 2, every triple at an
\* odd prime
JordanBlocks(p) ==
    IF p = 2
    THEN {<<m, n, d, s, o>> : m \in 0 .. MaxScale, n \in 1 .. MaxRank,
                              d \in DetClasses, s \in Parities, o \in Oddities}
    ELSE {<<m, n, d>> : m \in 0 .. MaxScale, n \in 1 .. MaxRank, d \in {1, -1}}

\* arg = <<p, block>>
InitBlock ==
    /\ \E p \in BlockPrimes : \E block \in JordanBlocks(p) : arg = <<p, block>>
    /\ heap = <<>>
    /\ sym = <<>>
    /\ before = <<>>
    /\ op = "none"
    /\ raised = FALSE
    /\ retIdx = <<>>
    /\ retSym = <<>>
    /\ red = NoRed
    /\ objs = <<>>
    /\ genus = <<>>
    /\ ret = None
    /\ representative = <<>>

\* _gram_from_jordan_block(arg[1], arg[2])
GramFromJordanBlock ==
    /\ op = "none"
    /\ ret' = _gram_from_jordan_block(arg[1], arg[2])
    /\ op' = "_gram_from_jordan_block"
    /\ UNCHANGED <<heap, sym, arg, before, raised, retIdx, retSym, red, objs, genus,
                   representative>>

NextBlock == GramFromJordanBlock

SpecBlock == InitBlock /\ [][NextBlock]_vars

\* q is a matrix of n rows and n columns
IsSquareOfSize(q, n) == Len(q) = n /\ \A i \in 1 .. Len(q) : Len(q[i]) = n

\* the least u > 0 that is the square of no x mod p
LeastNonSquare(p) ==
    CHOOSE u \in 1 .. p - 1 :
        /\ \A x \in 0 .. p - 1 : (x * x) % p # u
        /\ \A w \in 1 .. u - 1 : \E x \in 0 .. p - 1 : (x * x) % p = w

\* C30: for a 2-adic block (m, n, d, s, o) with n >= 1 that is_2_adic_genus
\* accepts, _gram_from_jordan_block(2, block) is a square matrix of size n; for
\* a block (m, n, d) at an odd prime p it is the diagonal matrix of size n with
\* the entries p^m * u, p^m, ..., p^m, where u = 1 if d = 1 and else u is the
\* least non-square mod p
C30_GramOfBlock ==
    op = "_gram_from_jordan_block" =>
        LET p     == arg[1]
            block == arg[2]
            m     == Item(block, 0)
            n     == Item(block, 1)
            u     == IF Item(block, 2) = 1 THEN 1 ELSE LeastNonSquare(p)
        IN
        /\ (p = 2 /\ is_2_adic_genus(<<block>>) = Return(TRUE)) => IsSquareOfSize(ret, n)
        /\ p # 2 =>
             ret = [i \in 1 .. n |->
                      [j \in 1 .. n |->
                         IF i # j THEN 0 ELSE IF i = 1 THEN p ^ m * u ELSE p ^ m]]

\* an accepted odd block of rank 2 at scale 1, for which the list of the case
\* table is cut to its last two entries
C30_Witness ==
    /\ op = "_gram_from_jordan_block"
    /\ arg = <<2, <<1, 2, 3, 1, 4>>>>
    /\ is_2_adic_genus(<<arg[2]>>) = Return(TRUE)
    /\ ret = <<<<2, 0>>, <<0, 6>>>>

\* a block of class -1 at the prime 5, whose least non-square is 2
C30_WitnessOdd ==
    /\ op = "_gram_from_jordan_block"
    /\ arg = <<5, <<1, 3, -1>>>>
    /\ ret = <<<<10, 0, 0>>, <<0, 5, 0>>, <<0, 0, 5>>>>
====
